---- MODULE Spec2Model ----
(***************************************************************************)
(* A model of the route planner (Cmixed/route): the weighted adjacency     *)
(* matrix graph WGraph, its four path searches (dijkstra,                  *)
(* geneticAlgorithm, localSearchOptimization,                              *)
(* geneticLocalSearchOptimization) and the concurrent harness              *)
(* (calculate_path_times, paths_task).                                     *)
(*                                                                         *)
(* Vertex indices are 0-based as in the C++ code.  A path is a TLA+        *)
(* sequence, so the C++ position p of a path is element p + 1 here.        *)
(***************************************************************************)
EXTENDS Integers, Sequences, FiniteSets, TLC

(***************************************************************************)
(* Bounds of the model.                                                    *)
(***************************************************************************)
\* Spec: the vertex capacity (the constructor's argument v), the largest
\* weight passed to addEdge and the most addEdge calls accepted.
NumVertices == 3
MaxWeight == 2
MaxEdges == 2
\* SpecDijkstra: the same three bounds of the graphs dijkstra is run on.
DijkstraVertices == 3
DijkstraWeight == 3
DijkstraEdges == 3
\* SpecAnneal: the same bounds, and the iterations run for MAX_ITERATIONS.
AnnealVertices == 4
AnnealWeight == 1
AnnealEdges == 3
AnnealIterations == 1
\* SpecHybrid: the graphs, and the population_size and generations arguments.
HybridVertices == 3
HybridWeight == 2
HybridEdges == 2
HybridPopulation == 2
HybridGenerations == 1
\* SpecGenetic: the graphs, and the sizes that stand for POPULATION_SIZE = 100,
\* MAX_GENERATIONS = 500 and ELITE_SIZE = 5 of geneticAlgorithm.
GeneticVertices == 4
GeneticWeight == 2
GeneticEdges == 5
POPULATION_SIZE == 2
MAX_GENERATIONS == 2
ELITE_SIZE == 1

(***************************************************************************)
(* Program constants.                                                      *)
(***************************************************************************)
\* std::numeric_limits<int>::max(), the initial tentative distance.
IntMax == 2147483647
\* The "no edge" sentinel the constructor fills the matrix with.
NoEdge == -1

VARIABLES
    m_vertices,     \* WGraph::m_vertices, the capacity N
    m_edges,        \* WGraph::m_edges
    m_vertexMap,    \* WGraph::m_vertexMap, as the set of the objects it holds
                    \* (one per id)
    m_adjMatrix,    \* WGraph::m_adjMatrix, [0..N-1 -> [0..N-1 -> Int]]
    inserted,       \* history: the number of addEdge calls with both indices
                    \* in [0, N) and a weight above 0, and for every pair of
                    \* vertices the weight of the latest of them (-1: none)
    op,             \* the search that was called: "none" while the graph is
                    \* built, then "dijkstra", "genetic", "annealing" or "hybrid"
    args,           \* <<start, end>>, the arguments of that call; in
                    \* SpecStore the arguments of the latest addEdge call
    ret,            \* the (path, distance) pair the call returned
    pc,             \* where the call is: "idle" before it, "loop" in its main
                    \* loop, "done" once it returned, "crashed" after an
                    \* out-of-bounds access ended the process
    iter,           \* the loop counter (iter, generation, gen)
    matrixRead,     \* whether the call has read m_adjMatrix
    currentPath,    \* localSearchOptimization: currentPath
    currentDistance, \* localSearchOptimization: currentDistance
    population,     \* geneticAlgorithm, geneticLocalSearchOptimization: population
    newPopulation,  \* the same two: newPopulation
    bestPath,       \* geneticAlgorithm: bestPath
    wild,           \* what a read outside m_adjMatrix meets in this run:
                    \* <<>> before the first one, then <<the int found there>>
    seen,           \* history: the distances geneticAlgorithm has computed
                    \* for the individuals it found valid
    f_pt,           \* paths_task: the future of each endpoint pair's task,
                    \* "running", "ready" or "threw"
    futures,        \* calculate_path_times of each pair: the futures of its
                    \* four algorithm tasks, "unlaunched", "running" or "finished"
    results,        \* calculate_path_times of each pair: results
    path_results,   \* paths_task: path_results
    reported,       \* paths_task: the pairs whose error it printed
    taskRet,        \* paths_task: the optional it returned
    rngDraws,       \* history: <<generator, invocation>> for every random
                    \* generator an algorithm task has drawn a number from
    m_vertexList,   \* data.h, WeightedAdjMatrixGraph::m_vertexList
    threads,        \* ThreadPool::threads, the vector of worker threads, as
                    \* their numbers
    workers,        \* every worker thread started: where it is in workerLoop
                    \* and the task it took
    tasks,          \* ThreadPool::tasks, the queue of task ids
    queueMutex,     \* ThreadPool::queueMutex: the thread that holds it
    shutdownFlag,   \* ThreadPool::shutdownFlag
    pausedFlag,     \* ThreadPool::pausedFlag
    canAddThreads,  \* ThreadPool::canAddThreads
    nextTaskId,     \* ThreadPool::nextTaskId
    client,         \* every thread that calls the pool: where it is in its
                    \* call, the task it submits, how its last call ended
    executed,       \* history: the task ids in the order workers ran them
    taskFutures     \* the shared state of every task's future, by task id

graphVars == <<m_vertices, m_edges, m_vertexMap, m_adjMatrix, inserted>>
callVars == <<op, args, ret>>
searchVars == <<pc, iter, matrixRead>>
annealVars == <<currentPath, currentDistance>>
popVars == <<population, newPopulation>>
geneticVars == <<bestPath, wild, seen>>
harnessVars == <<f_pt, futures, results, path_results, reported, taskRet, rngDraws>>
poolVars == <<threads, workers, tasks, queueMutex, shutdownFlag, pausedFlag, canAddThreads,
              nextTaskId, client, executed, taskFutures>>
vars == <<m_vertices, m_edges, m_vertexMap, m_adjMatrix, inserted,
          op, args, ret, pc, iter, matrixRead,
          currentPath, currentDistance, population, newPopulation,
          bestPath, wild, seen,
          f_pt, futures, results, path_results, reported, taskRet, rngDraws,
          m_vertexList, threads, workers, tasks, queueMutex, shutdownFlag, pausedFlag,
          canAddThreads, nextTaskId, client, executed, taskFutures>>

(***************************************************************************)
(* Helpers on sequences and sets.                                          *)
(***************************************************************************)
Range(s) == {s[i] : i \in DOMAIN s}

Reverse(s) == [i \in 1..Len(s) |-> s[Len(s) + 1 - i]]

NoResult == [path |-> <<>>, dist |-> 0]
\* The sentinel result {{}, -1} of every search.
NoPath == [path |-> <<>>, dist |-> -1]

Vertices == 0..(m_vertices - 1)

InRange(v) == v >= 0 /\ v < m_vertices

\* WeightedAdjMatrixGraph(v): m_vertices(v), m_edges(0), matrix filled with -1.
EmptyMatrix(n) == [i \in 0..(n - 1) |-> [j \in 0..(n - 1) |-> NoEdge]]

(***************************************************************************)
(* Graph Store.                                                            *)
(***************************************************************************)
\* A buggy addEdge that writes one direction only.
AddEdgeMatrixOneWay(src, dest, weight) ==
    [m_adjMatrix EXCEPT ![src][dest] = weight]

\* The matrix after the two writes of an accepted addEdge.
AddEdgeMatrix(src, dest, weight) ==
    [[m_adjMatrix EXCEPT ![src][dest] = weight] EXCEPT ![dest][src] = weight]

\* The record of one more insertion on the pair of src and dest.
Insert(src, dest, weight) ==
    [calls |-> inserted.calls + 1,
     weight |-> [inserted.weight EXCEPT ![{src, dest}] = weight]]

\* An addEdge that counts the edges: m_edges grows only when the pair had
\* no edge.
AddEdgeCountingPairs(src, dest, weight) ==
    /\ IF InRange(src) /\ InRange(dest) /\ weight > 0
       THEN /\ m_adjMatrix' = AddEdgeMatrix(src, dest, weight)
            /\ m_edges' = m_edges + (IF m_adjMatrix[src][dest] = -1 THEN 1 ELSE 0)
            /\ inserted' = Insert(src, dest, weight)
       ELSE UNCHANGED <<m_adjMatrix, m_edges, inserted>>
    /\ UNCHANGED <<m_vertices, m_vertexMap, op, ret, searchVars, annealVars,
                   popVars, geneticVars, harnessVars,
                   m_vertexList, poolVars>>

\* if (src >= 0 && src < m_vertices && dest >= 0 && dest < m_vertices) with
\* the test of the weight left out.
AcceptsAnyWeight(src, dest, weight) == InRange(src) /\ InRange(dest)

\* if (src >= 0 && src < m_vertices && dest >= 0 && dest < m_vertices && weight > 0)
Accepts(src, dest, weight) == InRange(src) /\ InRange(dest) /\ weight > 0

\* WGraph::addEdge.  What becomes of args, the record of the call, is for
\* the caller to say.
AddEdge(src, dest, weight) ==
    /\ IF Accepts(src, dest, weight)
       THEN /\ m_adjMatrix' = AddEdgeMatrix(src, dest, weight)
            /\ m_edges' = m_edges + 1
       ELSE UNCHANGED <<m_adjMatrix, m_edges>>
    /\ inserted' = IF InRange(src) /\ InRange(dest) /\ weight > 0
                   THEN Insert(src, dest, weight) ELSE inserted
    /\ UNCHANGED <<m_vertices, m_vertexMap, op, ret, searchVars, annealVars,
                   popVars, geneticVars, harnessVars,
                   m_vertexList, poolVars>>

\* A null shared_ptr<Object>.
NullObject == <<>>

\* WeightedAdjMatrixGraph::addVertex: vertex is NullObject or <<object>>, an
\* object being [m_id, m_name]; m_vertexMap[vertex->m_id] = vertex replaces
\* the object registered under the same id.
AddVertex(vertex) ==
    /\ IF vertex # NullObject
       THEN m_vertexMap' = {o \in m_vertexMap : o.m_id # vertex[1].m_id}
                               \cup {vertex[1]}
       ELSE UNCHANGED m_vertexMap
    /\ UNCHANGED <<m_vertices, m_edges, m_adjMatrix, inserted, callVars,
                   searchVars, annealVars, popVars, geneticVars, harnessVars,
                   m_vertexList, poolVars>>

\* A getWeight that answers 0 for an index outside the range.
getWeightZero(src, dest) ==
    IF InRange(src) /\ InRange(dest) THEN m_adjMatrix[src][dest] ELSE 0

\* WGraph::getWeight
getWeight(src, dest) ==
    IF InRange(src) /\ InRange(dest) THEN m_adjMatrix[src][dest] ELSE -1

\* The sum of m_adjMatrix over the consecutive pairs of a path, as the loops
\* "for (i = 0; i < path.size() - 1; ++i) d += m_adjMatrix[path[i]][path[i + 1]]"
\* compute it: a missing edge adds the sentinel -1.
RECURSIVE PathWeightFrom(_, _)
PathWeightFrom(path, i) ==
    IF i >= Len(path) THEN 0
    ELSE m_adjMatrix[path[i]][path[i + 1]] + PathWeightFrom(path, i + 1)

PathWeight(path) == PathWeightFrom(path, 1)

(***************************************************************************)
(* Exact search: WGraph::dijkstra.                                         *)
(***************************************************************************)
\* std::greater<> on std::pair<int,int>: the top of pq is the least pair,
\* compared by distance and then by vertex.
PairLess(a, b) == a[1] < b[1] \/ (a[1] = b[1] /\ a[2] < b[2])

\* The top of a priority_queue declared without std::greater<>: the greatest pair.
PqTopMaxHeap(pq) == CHOOSE t \in pq : \A o \in pq : o = t \/ PairLess(o, t)

\* pq.top()
PqTop(pq) == CHOOSE t \in pq : \A o \in pq : o = t \/ PairLess(t, o)

\* A relaxation that only reaches vertices no path has reached yet.
RelaxesUnreachedOnly(dist, u, v, weight) == dist[v] = IntMax

\* if (dist[v] > dist[u] + weight)
Relaxes(dist, u, v, weight) == dist[v] > dist[u] + weight

\* for (int v = 0; v < m_vertices; ++v) { ... } of dijkstra, from vertex v on.
RECURSIVE DijkstraScan(_, _, _)
DijkstraScan(u, v, st) ==
    IF v >= m_vertices THEN st
    ELSE LET weight == m_adjMatrix[u][v]
         IN IF weight # -1 /\ Relaxes(st.dist, u, v, weight)
            THEN LET d == st.dist[u] + weight
                 IN DijkstraScan(u, v + 1,
                        [dist |-> [st.dist EXCEPT ![v] = d],
                         prev |-> [st.prev EXCEPT ![v] = u],
                         pq   |-> st.pq \cup {<<d, v>>}])
            ELSE DijkstraScan(u, v + 1, st)

\* while (!pq.empty()) { ... } of dijkstra.
RECURSIVE DijkstraLoop(_, _)
DijkstraLoop(end, st) ==
    IF st.pq = {} THEN st
    ELSE LET top == PqTop(st.pq)
             u == top[2]
             popped == [st EXCEPT !.pq = st.pq \ {top}]
         IN IF u = end THEN popped
            ELSE DijkstraLoop(end, DijkstraScan(u, 0, popped))

\* A destination test that never reports "unreachable".
UnreachedNever(dist, end) == FALSE

\* if (dist[end] == std::numeric_limits<int>::max())
Unreached(dist, end) == dist[end] = IntMax

\* The path left in the order it was collected, from end back to start.
NotReversed(path) == path

\* std::ranges::reverse(path)
ReversedPath(path) == Reverse(path)

\* for (int at = end; at != -1; at = prev[at]) path.push_back(at);
RECURSIVE DijkstraBack(_, _)
DijkstraBack(prev, at) ==
    IF at = -1 THEN <<>> ELSE <<at>> \o DijkstraBack(prev, prev[at])

\* WGraph::dijkstra
dijkstra(start, end) ==
    IF start < 0 \/ start >= m_vertices \/ end < 0 \/ end >= m_vertices
    THEN NoPath
    ELSE LET st0 == [dist |-> [[v \in Vertices |-> IntMax] EXCEPT ![start] = 0],
                     prev |-> [v \in Vertices |-> -1],
                     pq   |-> {<<0, start>>}]
             st == DijkstraLoop(end, st0)
         IN IF Unreached(st.dist, end)
            THEN NoPath
            ELSE [path |-> ReversedPath(DijkstraBack(st.prev, end)),
                  dist |-> st.dist[end]]

\* A dijkstra that is not const: it removes the edges of the path it returns.
DijkstraConsuming(start, end) ==
    LET found == dijkstra(start, end).path
    IN /\ op' = "dijkstra"
       /\ args' = <<start, end>>
       /\ ret' = dijkstra(start, end)
       /\ pc' = "done"
       /\ matrixRead' = (InRange(start) /\ InRange(end))
       /\ m_adjMatrix' = [i \in Vertices |-> [j \in Vertices |->
              IF \E k \in 1..(Len(found) - 1) :
                     {found[k], found[k + 1]} = {i, j}
              THEN -1 ELSE m_adjMatrix[i][j]]]
       /\ m_edges' = m_edges - (IF found = <<>> THEN 0 ELSE Len(found) - 1)
       /\ UNCHANGED <<m_vertices, m_vertexMap, inserted, iter, annealVars,
                      popVars, geneticVars, harnessVars,
                   m_vertexList, poolVars>>

\* A call of dijkstra on the graph as it stands.
Dijkstra(start, end) ==
    /\ op' = "dijkstra"
    /\ args' = <<start, end>>
    /\ ret' = dijkstra(start, end)
    /\ pc' = "done"
    /\ matrixRead' = (InRange(start) /\ InRange(end))
    /\ UNCHANGED <<graphVars, iter, annealVars, popVars, geneticVars,
                   harnessVars,
                   m_vertexList, poolVars>>

(***************************************************************************)
(* The range check that opens geneticAlgorithm, localSearchOptimization    *)
(* and geneticLocalSearchOptimization.                                     *)
(***************************************************************************)
\* The check with the tests of end left out.
OutOfRangeStartOnly(start, end) == start < 0 \/ start >= m_vertices

\* if (start < 0 || start >= m_vertices || end < 0 || end >= m_vertices)
OutOfRange(start, end) ==
    start < 0 \/ start >= m_vertices \/ end < 0 \/ end >= m_vertices

(***************************************************************************)
(* Greedy construction: the nearest-unvisited-neighbour walk that          *)
(* localSearchOptimization and geneticLocalSearchOptimization start from.  *)
(***************************************************************************)
\* The inner for loop: the unvisited city nearest to lastCity; of several at
\* the least distance the lowest index wins (the test is a strict <).
NearestCity(lastCity, visited) ==
    LET open == {city \in Vertices :
                    /\ city \notin visited
                    /\ city # lastCity
                    /\ m_adjMatrix[lastCity][city] # -1}
    IN IF open = {} THEN -1
       ELSE CHOOSE city \in open : \A other \in open :
                \/ m_adjMatrix[lastCity][city] < m_adjMatrix[lastCity][other]
                \/ /\ m_adjMatrix[lastCity][city] = m_adjMatrix[lastCity][other]
                   /\ city <= other

\* while (currentPath.size() < m_vertices) { ... if (nextCity == -1) break; ... }
RECURSIVE GreedyWalk(_, _)
GreedyWalk(path, visited) ==
    IF Len(path) >= m_vertices THEN path
    ELSE LET nextCity == NearestCity(path[Len(path)], visited)
         IN IF nextCity = -1 THEN path
            ELSE GreedyWalk(Append(path, nextCity), visited \cup {nextCity})

\* if (!currentPath.empty() && currentPath.back() != end) currentPath.push_back(end);
ForceEnd(path, end) ==
    IF path # <<>> /\ path[Len(path)] # end THEN Append(path, end) ELSE path

GreedyPath(start, end) == ForceEnd(GreedyWalk(<<start>>, {start}), end)

(***************************************************************************)
(* Annealing local search: WGraph::localSearchOptimization.                *)
(***************************************************************************)
\* std::swap(candidatePath[pos1], candidatePath[pos2]); positions are 0-based.
SwapAt(path, pos1, pos2) ==
    [path EXCEPT ![pos1 + 1] = path[pos2 + 1], ![pos2 + 1] = path[pos1 + 1]]

\* The second swap left out: the candidate stays the exchanged path.
SecondSwapOmitted(path, pos1, pos2) == path

\* The second std::swap(candidatePath[pos1], candidatePath[pos2]), which
\* follows the sum the code calls originalSum.
SecondSwap(path, pos1, pos2) == SwapAt(path, pos1, pos2)

\* The weights of the edges to the left and to the right of position pos, as
\* "left = pos > 0 ? path[pos - 1] : -1; if (left != -1) sum += ..." adds them.
TouchingSum(path, pos) ==
    (IF pos > 0 THEN m_adjMatrix[path[pos]][path[pos + 1]] ELSE 0)
    + (IF pos < Len(path) - 1 THEN m_adjMatrix[path[pos + 1]][path[pos + 2]] ELSE 0)

\* What one iteration computes from in-bounds positions: the candidate path
\* it may adopt and its delta.
AnnealStep(path, pos1, pos2) ==
    LET swapped == SwapAt(path, pos1, pos2)
        originalSum == TouchingSum(swapped, pos1) + TouchingSum(swapped, pos2)
        candidatePath == SecondSwap(swapped, pos1, pos2)
        newSum == TouchingSum(candidatePath, pos1) + TouchingSum(candidatePath, pos2)
    IN [candidatePath |-> candidatePath, delta |-> newSum - originalSum]

\* The values d(rng) < exp(-delta / temperature) can take: a delta of 0 is
\* always accepted (d(rng) < 1), a positive delta sometimes.
AcceptOutcomes(delta) ==
    IF delta < 0 THEN {TRUE} ELSE IF delta = 0 THEN {TRUE} ELSE {TRUE, FALSE}

\* The differences an iteration adds to currentDistance when it read the
\* path out of bounds and survived.
GarbageDeltas == {-1, 0, 1}

\* The entry of localSearchOptimization: range check, greedy construction and
\* the initial distance.
AnnealStart(start, end) ==
    /\ op' = "annealing"
    /\ args' = <<start, end>>
    /\ iter' = 0
    /\ IF OutOfRange(start, end)
       THEN /\ ret' = NoPath
            /\ pc' = "done"
            /\ matrixRead' = FALSE
            /\ UNCHANGED annealVars
       ELSE /\ currentPath' = GreedyPath(start, end)
            /\ currentDistance' = PathWeight(GreedyPath(start, end))
            /\ pc' = "loop"
            /\ matrixRead' = TRUE
            /\ ret' = NoResult
    /\ UNCHANGED <<graphVars, popVars, geneticVars, harnessVars,
                   m_vertexList, poolVars>>

\* The positions std::uniform_int_distribution<int> dist(1, m_vertices - 2)
\* can give.  With fewer than three vertices the upper bound is below the
\* lower one, which the distribution does not allow: it then gives any int,
\* of which these are the ones below, inside and beyond a path.
PositionDraws ==
    IF m_vertices >= 3 THEN 1..(m_vertices - 2) ELSE -1..m_vertices

\* Whether candidatePath[pos] is outside the path.
OutOfBounds(path, pos) == pos < 0 \/ pos >= Len(path)

\* One iteration of the refinement loop, for iteration budget maxIter.  The
\* positions come from uniform_int_distribution(1, m_vertices - 2); a position
\* at or past currentPath.size() is an out-of-bounds access, after which the
\* process either dies or goes on with the values it happened to read.
AnnealIter(maxIter) ==
    /\ op = "annealing" /\ pc = "loop" /\ iter < maxIter
    /\ \E pos1 \in PositionDraws, pos2 \in PositionDraws :
          /\ pos1 # pos2
          /\ IF OutOfBounds(currentPath, pos1) \/ OutOfBounds(currentPath, pos2)
             THEN \E survives \in BOOLEAN, garbage \in GarbageDeltas :
                      IF survives
                      THEN /\ pc' = "loop"
                           /\ iter' = iter + 1
                           /\ currentDistance' = currentDistance + garbage
                           /\ UNCHANGED currentPath
                      ELSE /\ pc' = "crashed"
                           /\ garbage = 0
                           /\ UNCHANGED <<iter, annealVars>>
             ELSE LET step == AnnealStep(currentPath, pos1, pos2)
                  IN \E accepted \in AcceptOutcomes(step.delta) :
                         /\ pc' = "loop"
                         /\ iter' = iter + 1
                         /\ IF accepted
                            THEN /\ currentPath' = step.candidatePath
                                 /\ currentDistance' = currentDistance + step.delta
                            ELSE UNCHANGED annealVars
    /\ UNCHANGED <<graphVars, callVars, matrixRead, popVars,
                   geneticVars, harnessVars,
                   m_vertexList, poolVars>>

\* while (pos1 == pos2) pos2 = dist(rng) when dist has one value to give:
\* every draw repeats pos1 and the loop does not end.
AnnealRedraw(maxIter) ==
    /\ op = "annealing" /\ pc = "loop" /\ iter < maxIter
    /\ Cardinality(PositionDraws) = 1
    /\ pc' = "hung"
    /\ UNCHANGED <<graphVars, callVars, iter, matrixRead, annealVars, popVars,
                   geneticVars, harnessVars,
                   m_vertexList, poolVars>>

\* The return of localSearchOptimization after the last iteration.
AnnealReturn(maxIter) ==
    /\ op = "annealing" /\ pc = "loop" /\ iter = maxIter
    /\ ret' = [path |-> currentPath, dist |-> PathWeight(currentPath)]
    /\ pc' = "done"
    /\ UNCHANGED <<graphVars, op, args, iter, matrixRead, annealVars,
                   popVars, geneticVars, harnessVars,
                   m_vertexList, poolVars>>

(***************************************************************************)
(* Hybrid search: WGraph::geneticLocalSearchOptimization.                  *)
(***************************************************************************)
\* The second loop of the crossover: the cities of parent2 that the child
\* does not hold yet, appended in parent2's order.
RECURSIVE FillUnused(_, _)
FillUnused(child, rest) ==
    IF rest = <<>> THEN child
    ELSE LET city == Head(rest)
         IN IF /\ city \notin Range(child)
               /\ city # child[1]
               /\ city # child[Len(child)]
            THEN FillUnused(Append(child, city), Tail(rest))
            ELSE FillUnused(child, Tail(rest))

\* The child of one crossover: population[parent1][startIdx..endIdx], then the
\* unused cities of parent2 (indices are 0-based).
CrossChild(parent1, parent2, startIdx, endIdx) ==
    FillUnused(SubSeq(parent1, startIdx + 1, endIdx + 1), parent2)

\* std::reverse(newPath.begin() + i, newPath.begin() + j): the 0-based
\* positions i .. j-1 in reverse order.
ReverseSegment(path, i, j) ==
    [k \in 1..Len(path) |->
        IF i + 1 <= k /\ k <= j THEN path[i + 1 + j - k] ELSE path[k]]

\* A test that takes no reversal.
TwoOptAcceptsNone(newDist, currentDist) == FALSE

\* A test that also takes a reversal of the same length.
TwoOptAcceptsTies(newDist, currentDist) == newDist <= currentDist

\* if (newDist < currentDist)
TwoOptAccepts(newDist, currentDist) == newDist < currentDist

\* The two nested for loops of one pass, from the pair (i, j) on; an accepted
\* reversal replaces path at once, sets improved, and the later pairs work
\* on the new path.  On a path of one city the bound path.size() - 2 of the
\* outer loop wraps around to the largest size_t: its rounds find no j below
\* path.size() and do nothing.
RECURSIVE TwoOptScan(_, _, _, _)
TwoOptScan(path, i, j, improved) ==
    IF Len(path) < 2 \/ i >= Len(path) - 2
    THEN [path |-> path, improved |-> improved]
    ELSE IF j >= Len(path) THEN TwoOptScan(path, i + 1, i + 2, improved)
    ELSE IF j - i = 1 THEN TwoOptScan(path, i, j + 1, improved)
    ELSE LET newPath == ReverseSegment(path, i, j)
         IN IF TwoOptAccepts(PathWeight(newPath), PathWeight(path))
            THEN TwoOptScan(newPath, i, j + 1, TRUE)
            ELSE TwoOptScan(path, i, j + 1, improved)

\* One pass of the while (improved) loop over path.
TwoOptPass(path) == TwoOptScan(path, 1, 2, FALSE)

\* The outcomes of sorting the indices idxs by their keys and keeping the
\* first k: the order of members with equal keys is unspecified (std::sort
\* and std::ranges::sort are not stable).
SortedPicks(keys, idxs, k) ==
    LET n == IF Cardinality(idxs) < k THEN Cardinality(idxs) ELSE k
    IN {q \in [1..n -> idxs] :
          /\ \A a, b \in 1..n : a < b => q[a] # q[b] /\ keys[q[a]] <= keys[q[b]]
          /\ \A x \in idxs : (\A a \in 1..n : q[a] # x) =>
                                (n > 0 => keys[x] >= keys[q[n]])}

\* Generational replacement: the offspring, the second half of the merged
\* population, replace the parents.
OffspringOnly(merged, k) == {SubSeq(merged, Len(merged) - k + 1, Len(merged))}

\* std::sort of the merged population by the raw sums, then resize(k).
SortedPrefixes(merged, k) ==
    LET keys == [x \in 1..Len(merged) |-> PathWeight(merged[x])]
    IN {[a \in 1..k |-> merged[q[a]]] : q \in SortedPicks(keys, 1..Len(merged), k)}

\* std::min_element with the raw-sum comparator: the first member no other
\* member is smaller than.
MinElement(pop) ==
    LET best == CHOOSE a \in 1..Len(pop) :
                    /\ \A b \in 1..Len(pop) : PathWeight(pop[a]) <= PathWeight(pop[b])
                    /\ \A b \in 1..(a - 1) : PathWeight(pop[b]) > PathWeight(pop[a])
    IN pop[best]

\* The entry of geneticLocalSearchOptimization: range check and the greedy
\* initial population.
HybridStart(start, end, population_size) ==
    /\ op' = "hybrid"
    /\ args' = <<start, end>>
    /\ iter' = 0
    /\ newPopulation' = <<>>
    /\ IF OutOfRange(start, end)
       THEN /\ ret' = NoPath
            /\ pc' = "done"
            /\ matrixRead' = FALSE
            /\ UNCHANGED population
       ELSE /\ population' = [i \in 1..population_size |-> GreedyPath(start, end)]
            /\ pc' = "loop"
            /\ matrixRead' = TRUE
            /\ ret' = NoResult
    /\ UNCHANGED <<graphVars, annealVars, geneticVars, harnessVars,
                   m_vertexList, poolVars>>

\* One round of the while loop that fills newPopulation.  A parent of one
\* city makes std::rand() % 0 of the index draw: the division either traps
\* or yields 0.
HybridCross(population_size, generations) ==
    /\ op = "hybrid" /\ pc = "loop" /\ iter < generations
    /\ Len(newPopulation) < population_size
    /\ \E parent1 \in 1..population_size, parent2 \in 1..population_size :
          /\ parent1 # parent2
          /\ LET size == Len(population[parent1])
             IN \E startIdx \in 0..(IF size > 1 THEN size - 2 ELSE 0),
                   traps \in BOOLEAN :
                  \E endIdx \in startIdx..(size - 1) :
                      IF size = 1 /\ traps
                      THEN /\ pc' = "crashed"
                           /\ UNCHANGED newPopulation
                      ELSE /\ size > 1 => ~traps
                           /\ pc' = "loop"
                           /\ newPopulation' = Append(newPopulation,
                                  CrossChild(population[parent1], population[parent2],
                                             startIdx, endIdx))
    /\ UNCHANGED <<graphVars, callVars, iter, matrixRead, annealVars, population,
                   geneticVars, harnessVars,
                   m_vertexList, poolVars>>

\* while (parent1 == parent2) parent2 = std::rand() % population_size with
\* population_size = 1: both are 0 at every draw and the loop does not end.
HybridRedraw(population_size, generations) ==
    /\ op = "hybrid" /\ pc = "loop" /\ iter < generations
    /\ Len(newPopulation) < population_size
    /\ population_size = 1
    /\ pc' = "hung"
    /\ UNCHANGED <<graphVars, callVars, iter, matrixRead, annealVars, popVars,
                   geneticVars, harnessVars,
                   m_vertexList, poolVars>>

\* The children whose 2-opt loop has not ended: a pass over them accepts a
\* reversal.
Unrefined == {c \in 1..Len(newPopulation) : TwoOptPass(newPopulation[c]).improved}

\* One pass of the 2-opt loop that accepts a reversal, once newPopulation is
\* full: the loop over newPopulation works on the children in order, each
\* until a pass accepts nothing.
HybridRefine(population_size, generations) ==
    /\ op = "hybrid" /\ pc = "loop" /\ iter < generations
    /\ Len(newPopulation) = population_size
    /\ Unrefined # {}
    /\ LET c == CHOOSE x \in Unrefined : \A y \in Unrefined : x <= y
       IN newPopulation' = [newPopulation EXCEPT ![c] = TwoOptPass(@).path]
    /\ UNCHANGED <<graphVars, callVars, searchVars, annealVars, population,
                   geneticVars, harnessVars,
                   m_vertexList, poolVars>>

\* The rest of a generation once the 2-opt loop of every child has ended:
\* merge, sort, resize.
HybridSelect(population_size, generations) ==
    /\ op = "hybrid" /\ pc = "loop" /\ iter < generations
    /\ Len(newPopulation) = population_size
    /\ Unrefined = {}
    /\ population' \in SortedPrefixes(population \o newPopulation, population_size)
    /\ newPopulation' = <<>>
    /\ iter' = iter + 1
    /\ UNCHANGED <<graphVars, callVars, pc, matrixRead, annealVars,
                   geneticVars, harnessVars,
                   m_vertexList, poolVars>>

\* The return after the last generation: the min_element of the population
\* and its raw sum.
HybridReturn(generations) ==
    /\ op = "hybrid" /\ pc = "loop" /\ iter = generations
    /\ ret' = [path |-> MinElement(population),
               dist |-> PathWeight(MinElement(population))]
    /\ pc' = "done"
    /\ UNCHANGED <<graphVars, op, args, iter, matrixRead, annealVars,
                   popVars, geneticVars, harnessVars,
                   m_vertexList, poolVars>>

(***************************************************************************)
(* Genetic search: the helpers of tool.hpp.                                *)
(***************************************************************************)
\* adj_matrix[a][b] as the helpers read it.  A path can hold -1 (a slot the
\* crossover left unfilled); the read is then outside the matrix and meets
\* the int w.
WeightRead(a, b, w) ==
    IF a \in Vertices /\ b \in Vertices THEN m_adjMatrix[a][b] ELSE w

\* Whether is_valid_path reads outside the matrix on path: it reaches a pair
\* that holds -1 before it has met a missing edge.
ReadsOutside(path) ==
    \E i \in 1..(Len(path) - 1) :
        /\ path[i] \notin Vertices \/ path[i + 1] \notin Vertices
        /\ \A k \in 1..(i - 1) :
              /\ path[k] \in Vertices /\ path[k + 1] \in Vertices
              /\ m_adjMatrix[path[k]][path[k + 1]] # -1

\* is_valid_path: the loop returns false at the first consecutive pair of
\* weight -1 and true when there is none.
RECURSIVE ValidFrom(_, _, _)
ValidFrom(path, i, w) ==
    IF i >= Len(path) THEN TRUE
    ELSE IF WeightRead(path[i], path[i + 1], w) = -1 THEN FALSE
    ELSE ValidFrom(path, i + 1, w)

is_valid_path(path, w) == ValidFrom(path, 1, w)

RECURSIVE DistanceFrom(_, _, _)
DistanceFrom(path, i, w) ==
    IF i >= Len(path) THEN 0
    ELSE WeightRead(path[i], path[i + 1], w) + DistanceFrom(path, i + 1, w)

\* calculate_path_distance: the sum of the consecutive weights, or the
\* std::invalid_argument thrown at a weight of -1.
calculate_path_distance(path, w) ==
    IF is_valid_path(path, w)
    THEN [threw |-> FALSE, distance |-> DistanceFrom(path, 1, w)]
    ELSE [threw |-> TRUE, distance |-> 0]

\* The orders std::ranges::shuffle can leave a set of nodes in.
Shuffles(nodes) ==
    {q \in [1..Cardinality(nodes) -> nodes] :
        \A a, b \in 1..Cardinality(nodes) : a # b => q[a] # q[b]}

\* initialize_population: population_size paths, each start, the vertices
\* other than start and end in a shuffled order, end.
initialize_population(start, end, vertices, population_size) ==
    LET nodes == {i \in 0..(vertices - 1) : i # start /\ i # end}
        paths == {<<start>> \o q \o <<end>> : q \in Shuffles(nodes)}
    IN [1..population_size -> paths]

\* select: the 0-based indices roulette selection can return.  An individual
\* of positive fitness (a valid one) can always be drawn, the first one also
\* with the target 0.0, and any one when no individual is valid.
select(pop, w) ==
    LET fit == {i \in 1..Len(pop) : is_valid_path(pop[i], w)}
    IN IF fit = {} THEN 1..Len(pop) ELSE fit \cup {1}

\* The while loop of crossover: the first position from insertPos on that
\* still holds -1, or the size of child.
RECURSIVE NextFree(_, _)
NextFree(child, insertPos) ==
    IF insertPos < Len(child) /\ child[insertPos + 1] # -1
    THEN NextFree(child, insertPos + 1)
    ELSE insertPos

\* The second loop of crossover: each element of parent2 the child does not
\* hold goes to the next free slot, if there is one.
RECURSIVE CrossFill(_, _, _)
CrossFill(child, rest, insertPos) ==
    IF rest = <<>> THEN child
    ELSE IF Head(rest) \in Range(child)
         THEN CrossFill(child, Tail(rest), insertPos)
         ELSE LET pos == NextFree(child, insertPos)
              IN IF pos < Len(child)
                 THEN CrossFill([child EXCEPT ![pos + 1] = Head(rest)], Tail(rest), pos)
                 ELSE CrossFill(child, Tail(rest), pos)

\* crossover with the two drawn positions in order (it swaps them when
\* start > end): parent1[start..end] stays in place, the other slots start
\* as -1.
crossover(parent1, parent2, start, end) ==
    CrossFill([k \in 1..Len(parent1) |->
                  IF start + 1 <= k /\ k <= end + 1 THEN parent1[k] ELSE -1],
              parent2, 0)

\* mutate with the drawn positions i and j, which differ when it reaches the
\* swap (i = j is redrawn): std::swap(path[i], path[j]).
mutate(path, i, j) ==
    [path EXCEPT ![i + 1] = path[j + 1], ![j + 1] = path[i + 1]]

(***************************************************************************)
(* Genetic search: WGraph::geneticAlgorithm.                               *)
(***************************************************************************)
\* The ints a read outside the matrix can meet.
WildInts == {-1, 0, 1}

\* The int the reads outside the matrix meet in this run.
WildValue == IF wild = <<>> THEN 0 ELSE wild[1]

\* No path carried over: the elite loop left out.
NoElites(pop, distances) == {<<>>}

\* The elite paths that open newPopulation: the ELITE_SIZE individuals of
\* least distance among those with distances[i] != -1.
Elites(pop, distances) ==
    LET valid == {i \in 1..Len(pop) : distances[i] # -1}
    IN {[a \in 1..Len(q) |-> pop[q[a]]] : q \in SortedPicks(distances, valid, ELITE_SIZE)}

\* The fitness loop without the is_valid_path test: the individual of least
\* entry in distances, -1 entries included.
BestUnvalidated(pop, distances, w) ==
    pop[CHOOSE i \in 1..Len(pop) :
           /\ \A k \in 1..Len(pop) : distances[i] <= distances[k]
           /\ \A k \in 1..(i - 1) : distances[k] > distances[i]]

\* The individual the fitness loop leaves in bestPath: the first one no valid
\* individual is shorter than; bestPath stays when none is valid.
BestInGeneration(pop, distances, w) ==
    LET valid == {i \in 1..Len(pop) : is_valid_path(pop[i], w)}
    IN IF valid = {} THEN bestPath
       ELSE pop[CHOOSE i \in valid :
                   /\ \A k \in valid : distances[i] <= distances[k]
                   /\ \A k \in valid : k < i => distances[k] > distances[i]]

\* The entry of geneticAlgorithm: range check and initialize_population.
GeneticStart(start, end) ==
    /\ op' = "genetic"
    /\ args' = <<start, end>>
    /\ iter' = 0
    /\ matrixRead' = FALSE
    /\ IF OutOfRange(start, end)
       THEN /\ ret' = NoPath
            /\ pc' = "done"
            /\ UNCHANGED population
       ELSE /\ population' \in initialize_population(start, end, m_vertices,
                                                     POPULATION_SIZE)
            /\ pc' = "evaluate"
            /\ ret' = NoResult
    /\ newPopulation' = <<>>
    /\ bestPath' = <<>>
    /\ UNCHANGED <<graphVars, annealVars, wild, seen, harnessVars,
                   m_vertexList, poolVars>>

\* The first half of a generation: fitness of every individual, bestPath,
\* and the elite paths.  When is_valid_path reads outside the matrix for the
\* first time the process dies or goes on with the int it found.
GeneticEvaluate ==
    /\ op = "genetic" /\ pc = "evaluate" /\ iter < MAX_GENERATIONS
    /\ LET outside == \E i \in 1..Len(population) : ReadsOutside(population[i])
       IN \E traps \in BOOLEAN, w \in WildInts :
            /\ IF outside /\ wild = <<>> THEN TRUE
               ELSE ~traps /\ w = WildValue
            /\ IF traps
               THEN /\ pc' = "crashed"
                    /\ UNCHANGED <<popVars, geneticVars>>
               ELSE LET distances == [i \in 1..Len(population) |->
                           IF is_valid_path(population[i], w)
                           THEN calculate_path_distance(population[i], w).distance
                           ELSE -1]
                    IN /\ bestPath' = BestInGeneration(population, distances, w)
                       /\ newPopulation' \in Elites(population, distances)
                       /\ seen' = seen \cup {distances[i] : i \in
                              {k \in 1..Len(population) : is_valid_path(population[k], w)}}
                       /\ wild' = IF outside THEN <<w>> ELSE wild
                       /\ pc' = "breed"
                       /\ UNCHANGED population
    /\ matrixRead' = TRUE
    /\ UNCHANGED <<graphVars, callVars, iter, annealVars, harnessVars,
                   m_vertexList, poolVars>>

\* What one round of the while loop of a generation can push: every outcome
\* of the two selections, of crossover (with probability CROSSOVER_RATE, at
\* the drawn positions in order) and of mutate (with probability
\* MUTATION_RATE).  mutate on a path of three vertices redraws j for ever,
\* both positions being 1: hangs.
Offspring(pop, w) ==
    LET picks == select(pop, w)
        size == Len(pop[1])
        draws == {d \in (0..(size - 1)) \X (0..(size - 1)) : d[1] <= d[2]}
        crossed == {pop[p1] : p1 \in picks}
                   \cup {crossover(pop[p1], pop[p2], d[1], d[2]) :
                            p1 \in picks, p2 \in picks, d \in draws}
        swapped == IF size < 3 THEN crossed
                   ELSE {mutate(c, i, j) : c \in crossed,
                                           i \in 1..(size - 2), j \in 1..(size - 2)}
    IN {[child |-> c, hangs |-> FALSE] : c \in crossed}
       \cup (IF size = 3 THEN {[child |-> c, hangs |-> TRUE] : c \in crossed}
             ELSE {[child |-> c, hangs |-> FALSE] : c \in swapped})

\* One round of the while loop of a generation.  The child that fills
\* newPopulation ends the generation.
GeneticBreed ==
    /\ op = "genetic" /\ pc = "breed"
    /\ \E born \in Offspring(population, WildValue) :
          LET grown == Append(newPopulation, born.child)
          IN IF born.hangs
             THEN /\ pc' = "hung"
                  /\ UNCHANGED <<iter, popVars>>
             ELSE IF Len(grown) < POPULATION_SIZE
             THEN /\ newPopulation' = grown
                  /\ UNCHANGED <<pc, iter, population>>
             ELSE /\ population' = grown
                  /\ newPopulation' = <<>>
                  /\ iter' = iter + 1
                  /\ pc' = "evaluate"
    /\ UNCHANGED <<graphVars, callVars, matrixRead, annealVars,
                   geneticVars, harnessVars,
                   m_vertexList, poolVars>>

\* The return after the last generation.
GeneticReturn ==
    /\ op = "genetic" /\ pc = "evaluate" /\ iter = MAX_GENERATIONS
    /\ IF bestPath = <<>>
       THEN ret' = NoPath /\ pc' = "done"
       ELSE LET result == calculate_path_distance(bestPath, WildValue)
            IN IF result.threw
               THEN pc' = "threw" /\ UNCHANGED ret
               ELSE ret' = [path |-> bestPath, dist |-> result.distance] /\ pc' = "done"
    /\ UNCHANGED <<graphVars, op, args, iter, matrixRead, annealVars,
                   popVars, geneticVars, harnessVars,
                   m_vertexList, poolVars>>

(***************************************************************************)
(* Spec: the graph store under any sequence of addEdge calls, with valid   *)
(* and invalid arguments, and of addVertex calls.                          *)
(***************************************************************************)
\* The state after WeightedAdjMatrixGraph(n).
InitMembers(n) ==
    /\ m_vertices = n
    /\ m_edges = 0
    /\ m_vertexMap = {}
    /\ m_adjMatrix = EmptyMatrix(n)
    /\ inserted = [calls |-> 0,
                   weight |-> [e \in {{a, b} : a, b \in 0..(n - 1)} |-> -1]]
    /\ op = "none"
    /\ args = <<>>
    /\ ret = NoResult
    /\ pc = "idle"
    /\ iter = 0
    /\ matrixRead = FALSE
    /\ currentPath = <<>>
    /\ currentDistance = 0
    /\ population = <<>>
    /\ newPopulation = <<>>
    /\ bestPath = <<>>
    /\ wild = <<>>
    /\ seen = {}
    /\ f_pt = <<>>
    /\ futures = <<>>
    /\ results = <<>>
    /\ path_results = <<>>
    /\ reported = <<>>
    /\ taskRet = [kind |-> "none"]
    /\ rngDraws = {}
    /\ m_vertexList = <<>>

\* No ThreadPool has been constructed.
NoPool ==
    /\ threads = <<>>
    /\ workers = <<>>
    /\ tasks = <<>>
    /\ queueMutex = <<>>
    /\ shutdownFlag = FALSE
    /\ pausedFlag = FALSE
    /\ canAddThreads = TRUE
    /\ nextTaskId = 0
    /\ client = <<>>
    /\ executed = <<>>
    /\ taskFutures = <<>>

InitGraph(n) == InitMembers(n) /\ NoPool

Init == InitGraph(NumVertices)

\* The arguments addVertex is called with: a null pointer and an object.
VertexInputs == {NullObject, <<[m_id |-> 0, m_name |-> "place"]>>}

Next ==
    \/ /\ m_edges < MaxEdges
       /\ \E src \in -1..NumVertices, dest \in -1..NumVertices,
             weight \in -1..MaxWeight :
               AddEdge(src, dest, weight) /\ UNCHANGED args
    \/ \E vertex \in VertexInputs : AddVertex(vertex)

Spec == Init /\ [][Next]_vars

\* C2: after any sequence of addEdge calls, with valid or invalid arguments
\* and with pairs inserted again under other weights,
\* getWeight(src, dest) = getWeight(dest, src) for all src, dest in [0, N).
C2_Symmetric ==
    \A src \in Vertices, dest \in Vertices : getWeight(src, dest) = getWeight(dest, src)

\* Two calls were accepted and an edge between two different vertices exists.
C2_Witness ==
    /\ m_edges >= 2
    /\ \E src \in Vertices, dest \in Vertices : src # dest /\ getWeight(src, dest) > 0

\* C18: after any sequence of addEdge calls getWeight(src, dest) is -1 when
\* src or dest is outside [0, N) or no call on the pair (in either order)
\* was accepted, and otherwise the weight of the latest accepted call on the
\* pair.
C18_GetWeight ==
    \A src \in -1..m_vertices, dest \in -1..m_vertices :
        getWeight(src, dest) =
            IF src \in 0..(m_vertices - 1) /\ dest \in 0..(m_vertices - 1)
            THEN inserted.weight[{src, dest}]
            ELSE -1

\* Two calls were accepted, both on the same pair of different vertices, and
\* every other pair has no edge.
C18_Witness ==
    /\ inserted.calls = 2
    /\ \E src \in Vertices, dest \in Vertices :
          /\ src # dest
          /\ getWeight(src, dest) > 0
          /\ \A a \in Vertices, b \in Vertices :
                {a, b} # {src, dest} => getWeight(a, b) = -1

\* C20: every entry of the weight matrix is -1 or above 0; the edge count is
\* the number of accepted addEdge calls, a call on a pair that already has an
\* edge included; no step lowers it, and a step that is not an accepted
\* addEdge call leaves it as it was.
C20_WeightsAndCount ==
    /\ [](\A i \in Vertices, j \in Vertices :
              m_adjMatrix[i][j] = -1 \/ m_adjMatrix[i][j] > 0)
    /\ [](m_edges = inserted.calls)
    /\ [][m_edges' >= m_edges]_vars
    /\ [][inserted' = inserted => m_edges' = m_edges]_vars

\* Two calls were accepted on the same pair, which set four entries of the
\* matrix at most, and addVertex registered an object.
C20_Witness ==
    /\ m_edges = 2
    /\ Cardinality({e \in DOMAIN inserted.weight : inserted.weight[e] # -1}) = 1
    /\ m_vertexMap # {}

(***************************************************************************)
(* SpecStore: the graph store under addEdge and addVertex calls, with the  *)
(* arguments of the latest addEdge call on record.                         *)
(***************************************************************************)
StoreVertices == 2
StoreWeight == 1
StoreEdges == 2

NextStore ==
    \/ /\ m_edges < StoreEdges
       /\ \E src \in -1..StoreVertices, dest \in -1..StoreVertices,
             weight \in -1..StoreWeight :
               AddEdge(src, dest, weight) /\ args' = <<src, dest, weight>>
    \/ \E vertex \in VertexInputs : AddVertex(vertex)

InitStore == InitGraph(StoreVertices)

SpecStore == InitStore /\ [][NextStore]_vars

\* Whether the arguments of an addEdge call are acceptable: both indices in
\* [0, N) and the weight above 0.
ValidEdge(call) ==
    /\ call[1] \in 0..(m_vertices - 1)
    /\ call[2] \in 0..(m_vertices - 1)
    /\ call[3] > 0

\* C19: a call addEdge(src, dest, weight) with src or dest outside [0, N) or
\* weight <= 0 raises nothing and leaves the weight matrix, the edge count
\* and the vertex registry as they were.
C19_InvalidNoOp ==
    [][(op' = "none" /\ args' # args /\ ~ValidEdge(args')) =>
          /\ m_adjMatrix' = m_adjMatrix
          /\ m_edges' = m_edges
          /\ m_vertexMap' = m_vertexMap
          /\ pc' = pc]_vars

\* addEdge was called with weight 0 on a graph that has edges and a
\* registered object.
C19_Witness ==
    /\ op = "none"
    /\ Len(args) = 3
    /\ args[1] \in Vertices /\ args[2] \in Vertices /\ args[3] = 0
    /\ m_edges >= 1
    /\ m_vertexMap # {}
    /\ m_adjMatrix # EmptyMatrix(m_vertices)

(***************************************************************************)
(* SpecRegistry: addVertex calls on the vertex registry.  The repository   *)
(* holds the class twice: data.hpp and data.cpp keep the objects in        *)
(* m_vertexMap, by id; data.h keeps them in m_vertexList, in the order of  *)
(* the calls.  Every call is made on both.                                 *)
(***************************************************************************)
RegistryVertices == 2
RegistryIds == 3
RegistryCalls == 3

\* The objects addVertex is called with; their ids go beyond the capacity.
RegistryObjects ==
    {[m_id |-> id, m_name |-> name] : id \in 0..(RegistryIds - 1),
                                      name \in {"place", "supply"}}

\* addVertex of data.h (m_vertexList.push_back(vertex)) and of data.cpp
\* (m_vertexMap[vertex->m_id] = vertex), each behind if (vertex != nullptr).
AddVertexBoth(vertex) ==
    /\ m_vertexList' = IF vertex # NullObject
                       THEN Append(m_vertexList, vertex[1])
                       ELSE m_vertexList
    /\ m_vertexMap' = IF vertex # NullObject
                      THEN {o \in m_vertexMap : o.m_id # vertex[1].m_id}
                               \cup {vertex[1]}
                      ELSE m_vertexMap
    /\ UNCHANGED <<m_vertices, m_edges, m_adjMatrix, inserted, callVars,
                   searchVars, annealVars, popVars, geneticVars, harnessVars,
                   poolVars>>

\* WGraph::getVertex of data.cpp: m_vertexMap.find(id).
getVertex(id) ==
    IF \E o \in m_vertexMap : o.m_id = id
    THEN <<CHOOSE o \in m_vertexMap : o.m_id = id>>
    ELSE NullObject

\* getVertex of data.h reads m_vertexList[index] whenever index is in
\* [0, m_vertices), whatever the size of the list.
ReadsBeyondList(index) ==
    index >= 0 /\ index < m_vertices /\ index >= Len(m_vertexList)

\* WeightedAdjMatrixGraph::getVertex of data.h, as the set of the pointers
\* the call can return: one, but for a read beyond the end of the vector,
\* which meets any pointer.
getVertexAt(index) ==
    IF index >= 0 /\ index < m_vertices
    THEN IF ReadsBeyondList(index)
         THEN {NullObject} \cup {<<o>> : o \in RegistryObjects}
         ELSE {<<m_vertexList[index + 1]>>}
    ELSE {NullObject}

NextRegistry ==
    /\ Len(m_vertexList) < RegistryCalls
    /\ \E vertex \in {NullObject} \cup {<<o>> : o \in RegistryObjects} :
          AddVertexBoth(vertex)

InitRegistry == InitGraph(RegistryVertices)

SpecRegistry == InitRegistry /\ [][NextRegistry]_vars

\* The object most recently added with an id, NullObject if there is none:
\* m_vertexList holds every object that was added, in the order of the calls.
LastAdded(id) ==
    LET at == {k \in 1..Len(m_vertexList) : m_vertexList[k].m_id = id}
    IN  IF at = {} THEN NullObject
        ELSE <<m_vertexList[CHOOSE k \in at : \A l \in at : l <= k]>>

\* C21: after any sequence of addVertex calls, getVertex(id) returns the
\* object most recently added with that id, and null for an id that was never
\* added, without reading outside the registry.  Stated of getVertex of
\* data.h, the function the claim names.
C21_GetVertex ==
    \A id \in -1..RegistryIds :
        /\ ~ReadsBeyondList(id)
        /\ getVertexAt(id) = {LastAdded(id)}

\* The same of getVertex of data.cpp, which looks the id up in m_vertexMap.
C21_MapGetVertex ==
    \A id \in -1..RegistryIds : getVertex(id) = LastAdded(id)

\* An id was added twice with different objects and another id never.
C21_MapWitness ==
    /\ Len(m_vertexList) = 2
    /\ m_vertexList[1].m_id = m_vertexList[2].m_id
    /\ m_vertexList[1] # m_vertexList[2]
    /\ getVertex(m_vertexList[1].m_id) = <<m_vertexList[2]>>
    /\ getVertex(1 - m_vertexList[1].m_id) = NullObject

(***************************************************************************)
(* SpecDijkstra: a graph is built by accepted addEdge calls and dijkstra   *)
(* is then called on it with any pair of arguments, in range or not.  The  *)
(* searches are const members: a behaviour ends with the one call.         *)
(***************************************************************************)
\* The accepted addEdge calls that build a graph of n vertices with weights
\* up to w (addEdge(dest, src, weight) builds the same matrix).
BuildGraph(n, w, cap) ==
    /\ op = "none"
    /\ m_edges < cap
    /\ \E src \in 0..(n - 1), dest \in 0..(n - 1), weight \in 1..w :
           src <= dest /\ AddEdge(src, dest, weight) /\ UNCHANGED args

\* The (start, end) pairs a search of a graph of n vertices is called with:
\* every in-range pair, and each side below and above the range.
SearchArgs(n) ==
    ((0..(n - 1)) \X (0..(n - 1)))
        \cup {<<-1, 0>>, <<n, 0>>, <<0, -1>>, <<0, n>>, <<-1, -1>>, <<n, n>>}

\* The one call of dijkstra that ends a behaviour.
CallDijkstra(n) ==
    /\ op = "none"
    /\ \E a \in SearchArgs(n) : Dijkstra(a[1], a[2])

InitDijkstra == InitGraph(DijkstraVertices)

NextDijkstra ==
    \/ BuildGraph(DijkstraVertices, DijkstraWeight, DijkstraEdges)
    \/ CallDijkstra(DijkstraVertices)

SpecDijkstra == InitDijkstra /\ [][NextDijkstra]_vars

(***************************************************************************)
(* SpecScenario: the five-vertex graph A-B=5, A-C=3, B-C=2, B-D=1, C-D=4   *)
(* (A..D are 0..3, vertex 4 has no edge) is built edge by edge, in any     *)
(* order, and dijkstra is called, on the graph built so far.               *)
(***************************************************************************)
ScenarioGraph ==
    [vertices |-> 5,
     edges |-> {<<0, 1, 5>>, <<0, 2, 3>>, <<1, 2, 2>>, <<1, 3, 1>>, <<2, 3, 4>>}]

\* addEdge of an edge of the scenario that the graph does not have yet.
BuildScenario ==
    /\ op = "none"
    /\ \E e \in ScenarioGraph.edges :
          /\ getWeight(e[1], e[2]) = -1
          /\ AddEdge(e[1], e[2], e[3])
          /\ UNCHANGED args

\* Whether the graph has every edge of the scenario.
ScenarioBuilt ==
    \A e \in ScenarioGraph.edges : getWeight(e[1], e[2]) = e[3]

InitScenario == InitGraph(ScenarioGraph.vertices)

NextScenario ==
    \/ BuildScenario
    \/ CallDijkstra(ScenarioGraph.vertices)

SpecScenario == InitScenario /\ [][NextScenario]_vars

\* C22: on the scenario graph dijkstra(A, D) returns distance 6 with the
\* path [A, B, D] or [A, C, B, D].
C22_Scenario ==
    (ScenarioBuilt /\ op = "dijkstra" /\ pc = "done" /\ args = <<0, 3>>) =>
        /\ ret.dist = 6
        /\ ret.path \in {<<0, 1, 3>>, <<0, 2, 1, 3>>}

\* dijkstra(A, D) returned on the whole scenario graph; the path it gave is
\* [A, B, D].
C22_Witness ==
    /\ ScenarioBuilt
    /\ m_edges = 5
    /\ op = "dijkstra" /\ pc = "done" /\ args = <<0, 3>>
    /\ ret = [path |-> <<0, 1, 3>>, dist |-> 6]

(***************************************************************************)
(* Properties of paths, stated without reference to any search.            *)
(***************************************************************************)
MinOf(S) == CHOOSE x \in S : \A y \in S : x <= y

\* A path is valid iff every consecutive pair has an edge.
ValidPath(path) ==
    \A i \in 1..(Len(path) - 1) : m_adjMatrix[path[i]][path[i + 1]] # -1

\* One more edge: the entries of vertices v, v + 1, ... of the tuple of least
\* walk weights, given the tuple p for walks of one edge fewer (vertex u is
\* entry u + 1).
RECURSIVE WalkRelax(_, _)
WalkRelax(p, v) ==
    IF v >= m_vertices THEN <<>>
    ELSE <<MinOf({p[v + 1]} \cup
                 {p[u + 1] + m_adjMatrix[u][v] :
                     u \in {x \in Vertices : p[x + 1] # IntMax /\ m_adjMatrix[x][v] # -1}})>>
         \o WalkRelax(p, v + 1)

\* WalkDist(k, s)[v + 1]: the least total weight of a valid walk of at most
\* k edges from s to v, IntMax when there is none.
RECURSIVE WalkDist(_, _)
WalkDist(k, s) ==
    IF k = 0 THEN [v \in 1..m_vertices |-> IF v = s + 1 THEN 0 ELSE IntMax]
    ELSE WalkRelax(WalkDist(k - 1, s), 0)

\* The vertices some valid walk from the set S reaches.
RECURSIVE ReachableFrom(_)
ReachableFrom(S) ==
    LET T == S \cup {v \in Vertices : \E u \in S : m_adjMatrix[u][v] # -1}
    IN IF T = S THEN S ELSE ReachableFrom(T)

ArgsInRange == InRange(args[1]) /\ InRange(args[2])

(***************************************************************************)
(* Claims about dijkstra.                                                  *)
(***************************************************************************)
\* C1: for every graph built by addEdge calls and every in-range start, end
\* with end reachable from start, dijkstra returns the minimum total weight
\* over all valid walks from start to end (of up to m_vertices edges, which
\* covers every path any of the four searches can return), so no valid path
\* between the same endpoints is shorter.
C1_DijkstraOptimal ==
    (op = "dijkstra" /\ ArgsInRange) =>
        LET least == WalkDist(m_vertices, args[1])[args[2] + 1]
        IN least # IntMax => ret.dist = least

\* A detour of two edges beats the direct edge and dijkstra returns it.
C1_Witness ==
    /\ op = "dijkstra" /\ ArgsInRange
    /\ Len(ret.path) = 3
    /\ m_adjMatrix[args[1]][args[2]] # -1
    /\ ret.dist < m_adjMatrix[args[1]][args[2]]

\* C8: dijkstra returns (empty, -1) when start or end is out of range or no
\* path connects them, and a non-empty path in every other case; for
\* start = end it returns ([start], 0).
C8_DijkstraSentinel ==
    op = "dijkstra" =>
        IF ~ArgsInRange \/ args[2] \notin ReachableFrom({args[1]})
        THEN ret = NoPath
        ELSE /\ ret.path # <<>>
             /\ args[1] = args[2] => ret = [path |-> <<args[1]>>, dist |-> 0]

\* dijkstra was called on in-range vertices of a graph with edges, none of
\* which connects them.
C8_Witness ==
    /\ op = "dijkstra" /\ ArgsInRange
    /\ m_edges >= 2
    /\ args[2] \notin ReachableFrom({args[1]})
    /\ ret = NoPath

\* C10: a non-empty path returned by dijkstra starts at start, ends at end,
\* has an edge between every consecutive pair, repeats no vertex, and the
\* returned distance is the sum of the weights of its consecutive pairs.
C10_DijkstraPath ==
    (op = "dijkstra" /\ ret.path # <<>>) =>
        /\ ret.path[1] = args[1]
        /\ ret.path[Len(ret.path)] = args[2]
        /\ ValidPath(ret.path)
        /\ Cardinality(Range(ret.path)) = Len(ret.path)
        /\ ret.dist = PathWeight(ret.path)

\* dijkstra returned a path of three vertices.
C10_Witness ==
    op = "dijkstra" /\ Len(ret.path) = 3 /\ ret.dist = PathWeight(ret.path)

(***************************************************************************)
(* SpecAnneal: a graph without self-loops is built by accepted addEdge     *)
(* calls and localSearchOptimization is run on it, AnnealIterations        *)
(* iterations standing for MAX_ITERATIONS.                                 *)
(***************************************************************************)
\* The edges are added one call each, between different vertices and in
\* the order of (src, dest): a call adds an edge that comes after the edges
\* the graph has.
BuildSimpleGraph(n, w, cap) ==
    /\ op = "none"
    /\ m_edges < cap
    /\ \E src \in 0..(n - 1), dest \in 0..(n - 1), weight \in 1..w :
           /\ src < dest
           /\ \A a \in 0..(n - 1), b \in 0..(n - 1) :
                 (a < b /\ m_adjMatrix[a][b] # -1) => (a < src \/ (a = src /\ b < dest))
           /\ AddEdge(src, dest, weight)
           /\ UNCHANGED args

CallAnneal(n) ==
    /\ op = "none"
    /\ \E a \in SearchArgs(n) : AnnealStart(a[1], a[2])

InitAnneal == InitGraph(AnnealVertices)

NextAnneal ==
    \/ BuildSimpleGraph(AnnealVertices, AnnealWeight, AnnealEdges)
    \/ CallAnneal(AnnealVertices)
    \/ AnnealIter(AnnealIterations)
    \/ AnnealReturn(AnnealIterations)

SpecAnneal == InitAnneal /\ [][NextAnneal]_vars

\* The greedy walk of the call stopped before it had m_vertices cities or
\* ended elsewhere than at end, so that end was appended.
EndWasForced ==
    LET walk == GreedyWalk(<<args[1]>>, {args[1]})
    IN walk[Len(walk)] # args[2]

C13_NoSentinelSummed ==
    (op \in {"dijkstra", "genetic", "annealing", "hybrid"}
        /\ pc = "done" /\ ret.path # <<>>) =>
        /\ Range(ret.path) \subseteq Vertices
        /\ ValidPath(ret.path)

\* The cost delta of the exchange of positions pos1 and pos2 of path: the
\* weights of the edges that touch the two positions in the exchanged path
\* minus those in path.
SwapDelta(path, pos1, pos2) ==
    LET swapped == SwapAt(path, pos1, pos2)
    IN (TouchingSum(swapped, pos1) + TouchingSum(swapped, pos2))
       - (TouchingSum(path, pos1) + TouchingSum(path, pos2))

\* C24: an iteration of the annealing refinement whose candidate exchange of
\* two positions other than the ends has a negative cost delta accepts it, and an accepted
\* exchange leaves currentPath with the two positions exchanged: every
\* iteration is explained by one of the draws it can have made.
C24_NegativeDeltaAccepted ==
    [][(op = "annealing" /\ pc = "loop" /\ pc' = "loop" /\ iter' = iter + 1) =>
          \E pos1 \in 1..(m_vertices - 2), pos2 \in 1..(m_vertices - 2) :
              /\ pos1 # pos2
              /\ (pos1 < Len(currentPath) - 1 /\ pos2 < Len(currentPath) - 1) =>
                    /\ currentPath' \in {currentPath, SwapAt(currentPath, pos1, pos2)}
                    /\ SwapDelta(currentPath, pos1, pos2) < 0 =>
                          currentPath' = SwapAt(currentPath, pos1, pos2)]_vars

\* C28: every position localSearchOptimization can draw for a swap is an
\* interior index of the current path, 1 <= pos <= length - 2: no element is
\* read or written outside the path and the ends are not swapped.
C28_InteriorPositions ==
    (op = "annealing" /\ pc = "loop") =>
        \A pos \in PositionDraws : 1 <= pos /\ pos <= Len(currentPath) - 2

(***************************************************************************)
(* SpecHybrid: a graph without self-loops is built and                     *)
(* geneticLocalSearchOptimization(start, end, HybridPopulation,            *)
(* HybridGenerations) is run on it.                                        *)
(***************************************************************************)
CallHybrid(n) ==
    /\ op = "none"
    /\ \E a \in SearchArgs(n) : HybridStart(a[1], a[2], HybridPopulation)

InitHybrid == InitGraph(HybridVertices)

NextHybrid ==
    \/ BuildSimpleGraph(HybridVertices, HybridWeight, HybridEdges)
    \/ CallHybrid(HybridVertices)
    \/ HybridCross(HybridPopulation, HybridGenerations)
    \/ HybridRefine(HybridPopulation, HybridGenerations)
    \/ HybridSelect(HybridPopulation, HybridGenerations)
    \/ HybridReturn(HybridGenerations)

SpecHybrid == InitHybrid /\ [][NextHybrid]_vars

\* C4: every non-empty path returned by geneticLocalSearchOptimization has
\* an edge (a weight other than -1) between every two consecutive vertices.
C4_HybridValid ==
    (op = "hybrid" /\ pc = "done" /\ ret.path # <<>>) => ValidPath(ret.path)

\* C12: in a call of geneticLocalSearchOptimization with start and end in
\* range, every individual of the population, every offspring of the
\* crossover and the path returned has start as its first element and end as
\* its last.
C12_HybridEndpoints ==
    (op = "hybrid" /\ ArgsInRange) =>
        \A path \in Range(population) \cup Range(newPopulation)
                        \cup (IF pc = "done" THEN {ret.path} ELSE {}) :
            path # <<>> => path[1] = args[1] /\ path[Len(path)] = args[2]

\* The least length sum in a population.
MinDistance(pop) ==
    CHOOSE d \in {PathWeight(pop[a]) : a \in 1..Len(pop)} :
        \A b \in 1..Len(pop) : d <= PathWeight(pop[b])

\* Whether kept holds Len(kept) members of merged, each taken once, and no
\* member left out has a smaller length sum than a member kept.
LowestOf(kept, merged) ==
    \E q \in [1..Len(kept) -> 1..Len(merged)] :
        /\ \A a, b \in 1..Len(kept) : a # b => q[a] # q[b]
        /\ \A a \in 1..Len(kept) : kept[a] = merged[q[a]]
        /\ \A x \in 1..Len(merged) :
              (\A a \in 1..Len(kept) : q[a] # x) =>
                  \A a \in 1..Len(kept) : PathWeight(merged[x]) >= PathWeight(kept[a])

\* C25: in geneticLocalSearchOptimization the population after a generation
\* has population_size individuals, population_size members of least
\* distance of the parents merged with the offspring, so that the least
\* distance in the population does not grow; the individual returned has
\* the least distance of the final population.
C25_Truncation ==
    /\ [][(op = "hybrid" /\ iter' = iter + 1) =>
             /\ Len(population') = HybridPopulation
             /\ LowestOf(population', population \o newPopulation)
             /\ MinDistance(population') <= MinDistance(population)]_vars
    /\ []((op = "hybrid" /\ ArgsInRange /\ pc = "done") =>
             /\ ret.path \in Range(population)
             /\ ret.dist = PathWeight(ret.path)
             /\ ret.dist = MinDistance(population))

\* The search returned after a generation in which an offspring, of smaller
\* distance than the initial individuals, took a place in the population
\* next to a parent.
C25_Witness ==
    /\ op = "hybrid" /\ ArgsInRange /\ pc = "done"
    /\ iter = HybridGenerations
    /\ GreedyPath(args[1], args[2]) \in Range(population)
    /\ ret.path # GreedyPath(args[1], args[2])
    /\ ret.dist < PathWeight(GreedyPath(args[1], args[2]))

(***************************************************************************)
(* SpecGenetic: a graph without self-loops is built and geneticAlgorithm   *)
(* is run on it, with POPULATION_SIZE, MAX_GENERATIONS and ELITE_SIZE      *)
(* scaled down.                                                            *)
(***************************************************************************)
CallGenetic(n) ==
    /\ op = "none"
    /\ \E a \in {x \in SearchArgs(n) : x[1] # x[2]} : GeneticStart(a[1], a[2])

InitGenetic == InitGraph(GeneticVertices)

NextGenetic ==
    \/ BuildSimpleGraph(GeneticVertices, GeneticWeight, GeneticEdges)
    \/ CallGenetic(GeneticVertices)
    \/ GeneticEvaluate
    \/ GeneticBreed
    \/ GeneticReturn

SpecGenetic == InitGenetic /\ [][NextGenetic]_vars

\* The distance of the path bestPath holds, as the fitness loop computed it.
TrackedBest ==
    IF bestPath = <<>> THEN IntMax ELSE DistanceFrom(bestPath, 1, WildValue)

\* C7: the tracked best distance of geneticAlgorithm never grows from one
\* generation to the next, and the path returned has the least distance of
\* all the valid individuals evaluated in any generation.
C7_GeneticBest ==
    /\ [][TrackedBest' <= TrackedBest]_vars
    /\ []((op = "genetic" /\ pc = "done" /\ seen # {}) =>
            /\ ret.path # <<>>
            /\ ret.dist = MinOf(seen))

\* A search returned after it had evaluated valid individuals of different
\* distances in its two generations.
C7_Witness ==
    /\ op = "genetic" /\ pc = "done"
    /\ iter = MAX_GENERATIONS
    /\ Cardinality(seen) >= 2
    /\ ret.dist = MinOf(seen)

\* C17: a call of geneticAlgorithm with start and end in range raises no
\* error, and when it has returned, it returned (empty path, -1) exactly if
\* no individual it evaluated in any generation was a valid path.
C17_GeneticSentinel ==
    (op = "genetic" /\ ArgsInRange) =>
        /\ pc # "threw"
        /\ pc = "done" => (ret = NoPath <=> seen = {})

\* The search ran all its generations on a graph with edges, every selection
\* was among invalid individuals, and it returned the sentinel.
C17_Witness ==
    /\ op = "genetic" /\ ArgsInRange
    /\ pc = "done"
    /\ iter = MAX_GENERATIONS
    /\ m_edges >= 2
    /\ seen = {}
    /\ ret = NoPath

(***************************************************************************)
(* SpecRange: the three metaheuristic searches called on a built graph     *)
(* with a start or an end outside [0, N).                                  *)
(***************************************************************************)
\* The argument pairs of which one at least is -1 or N.
RangeArgs(n) ==
    {a \in (-1..n) \X (-1..n) : a[1] \in {-1, n} \/ a[2] \in {-1, n}}

RangeGenetic(n) ==
    /\ op = "none"
    /\ \E a \in RangeArgs(n) : GeneticStart(a[1], a[2])

RangeAnneal(n) ==
    /\ op = "none"
    /\ \E a \in RangeArgs(n) : AnnealStart(a[1], a[2])

RangeHybrid(n) ==
    /\ op = "none"
    /\ \E a \in RangeArgs(n) : HybridStart(a[1], a[2], HybridPopulation)

InitRange == InitGraph(AnnealVertices)

NextRange ==
    \/ BuildSimpleGraph(AnnealVertices, AnnealWeight, AnnealEdges)
    \/ RangeGenetic(AnnealVertices)
    \/ RangeAnneal(AnnealVertices)
    \/ RangeHybrid(AnnealVertices)

SpecRange == InitRange /\ [][NextRange]_vars

\* C9: a call of geneticAlgorithm, localSearchOptimization or
\* geneticLocalSearchOptimization with start or end outside [0, N) has
\* returned (empty path, -1) as its first step: it raised nothing, is in no
\* loop, and has not read the weight matrix.
C9_RangeSentinel ==
    (op \in {"genetic", "annealing", "hybrid"} /\ ~ArgsInRange) =>
        /\ pc = "done"
        /\ ret = NoPath
        /\ ~matrixRead

\* The hybrid search was called on a graph with edges, with start in range
\* and end = N, and returned the sentinel.
C9_Witness ==
    /\ op = "hybrid"
    /\ m_edges > 0
    /\ args[1] \in Vertices /\ args[2] = m_vertices
    /\ ret = NoPath /\ pc = "done" /\ ~matrixRead

(***************************************************************************)
(* The harness of menu.hpp: paths_task starts one asynchronous task per    *)
(* endpoint pair, each task runs calculate_path_times, which starts one    *)
(* asynchronous task per algorithm.  The value an algorithm task returns   *)
(* is kept as the pair it ran for and the function it called.              *)
(***************************************************************************)
MaxPairs == 2

\* algorithm_map: the WGraph member each entry calls, in the array's order.
algorithm_map ==
    <<"localSearchOptimization", "geneticAlgorithm", "dijkstra",
      "geneticLocalSearchOptimization">>

Algorithms == 1..Len(algorithm_map)

\* measure_performance, run by the algorithm task a of pair p.
measure_performance(p, a) == [pair |-> p, algorithm |-> algorithm_map[a]]

Nullopt == [kind |-> "nullopt"]

Value(lists) == [kind |-> "value", value |-> lists]

\* paths_task: one std::async per element of pep, in the order of pep.  The
\* collection loop starts with the first future.
PathsTask(k) ==
    /\ op = "none"
    /\ op' = "paths_task"
    /\ args' = <<k>>
    /\ pc' = "collect"
    /\ f_pt' = [p \in 1..k |-> "running"]
    /\ futures' = [p \in 1..k |-> [a \in Algorithms |-> "unlaunched"]]
    /\ results' = [p \in 1..k |-> <<>>]
    /\ path_results' = <<>>
    /\ UNCHANGED <<rngDraws, m_vertexList, poolVars, graphVars, ret, iter, matrixRead, annealVars, popVars,
                   geneticVars, reported, taskRet>>

\* calculate_path_times of pair p: the loop that starts the four algorithm
\* tasks.
CalcLaunch(p) ==
    /\ op = "paths_task"
    /\ p \in DOMAIN f_pt
    /\ f_pt[p] = "running"
    /\ \A a \in Algorithms : futures[p][a] = "unlaunched"
    /\ futures' = [futures EXCEPT ![p] = [a \in Algorithms |-> "running"]]
    /\ UNCHANGED <<rngDraws, m_vertexList, poolVars, graphVars, callVars, searchVars, annealVars, popVars,
                   geneticVars, f_pt, results, path_results, reported, taskRet>>

\* The algorithm task a of pair p completes: its future holds a value or an
\* exception, which of the two is seen by the get() that reads it.
AlgoFinish(p, a) ==
    /\ op = "paths_task"
    /\ p \in DOMAIN f_pt
    /\ futures[p][a] = "running"
    /\ futures' = [futures EXCEPT ![p][a] = "finished"]
    /\ UNCHANGED <<rngDraws, m_vertexList, poolVars, graphVars, callVars, searchVars, annealVars, popVars,
                   geneticVars, f_pt, results, path_results, reported, taskRet>>

\* The future calculate_path_times reads after it has collected `collected`
\* results: the range-for over futures visits them in the order of launch.
LastFuture(collected) == Len(algorithm_map) - collected

NextFuture(collected) == collected + 1

\* calculate_path_times of pair p: one round of the collection loop, and the
\* return after the last.  get() blocks until the task has completed.  An
\* exception leaves the function: the futures are destroyed first, which
\* waits for every algorithm task, and the exception becomes the outcome of
\* the pair's task.
CalcCollect(p) ==
    /\ op = "paths_task"
    /\ p \in DOMAIN f_pt
    /\ f_pt[p] = "running"
    /\ Len(results[p]) < Len(algorithm_map)
    /\ LET a == NextFuture(Len(results[p])) IN
       /\ futures[p][a] = "finished"
       /\ \E throws \in BOOLEAN :
            IF throws
            THEN /\ \A b \in Algorithms : futures[p][b] = "finished"
                 /\ f_pt' = [f_pt EXCEPT ![p] = "threw"]
                 /\ UNCHANGED results
            ELSE /\ results' = [results EXCEPT
                                   ![p] = Append(@, measure_performance(p, a))]
                 /\ f_pt' = [f_pt EXCEPT
                                ![p] = IF Len(results'[p]) = Len(algorithm_map)
                                       THEN "ready" ELSE @]
    /\ UNCHANGED <<rngDraws, m_vertexList, poolVars, graphVars, callVars, searchVars, annealVars, popVars,
                   geneticVars, futures, path_results, reported, taskRet>>

\* The catch handler of paths_task ends the call (return {}).
ContinueOnError == FALSE

ReturnOnError == TRUE

\* paths_task: one round of the collection loop, over f_pt in the order of
\* submission.  get() blocks until the pair's task has completed.
TaskCollect ==
    /\ op = "paths_task"
    /\ pc = "collect"
    /\ LET p == Len(path_results) + Len(reported) + 1 IN
       /\ p \in DOMAIN f_pt
       /\ f_pt[p] # "running"
       /\ IF f_pt[p] = "ready"
          THEN /\ path_results' = Append(path_results, results[p])
               /\ UNCHANGED <<pc, reported, taskRet>>
          ELSE /\ reported' = Append(reported, p)
               /\ IF ReturnOnError
                  THEN pc' = "done" /\ taskRet' = Nullopt
                  ELSE UNCHANGED <<pc, taskRet>>
               /\ UNCHANGED path_results
    /\ UNCHANGED <<rngDraws, m_vertexList, poolVars, graphVars, op, args, ret, iter, matrixRead, annealVars,
                   popVars, geneticVars, f_pt, futures, results>>

\* paths_task: the return after the collection loop.
TaskReturn ==
    /\ op = "paths_task"
    /\ pc = "collect"
    /\ Len(path_results) + Len(reported) = Len(f_pt)
    /\ pc' = "done"
    /\ taskRet' = Value(path_results)
    /\ UNCHANGED <<rngDraws, m_vertexList, poolVars, graphVars, op, args, ret, iter, matrixRead, annealVars,
                   popVars, geneticVars, f_pt, futures, results,
                   path_results, reported>>

(***************************************************************************)
(* SpecHarness: one call of paths_task with 0..MaxPairs endpoint pairs,    *)
(* the tasks completing in any order.                                      *)
(***************************************************************************)
InitHarness == InitGraph(NumVertices)

NextHarness ==
    \/ \E k \in 0..MaxPairs : PathsTask(k)
    \/ \E p \in 1..MaxPairs : CalcLaunch(p)
    \/ \E p \in 1..MaxPairs, a \in Algorithms : AlgoFinish(p, a)
    \/ \E p \in 1..MaxPairs : CalcCollect(p)
    \/ TaskCollect
    \/ TaskReturn

SpecHarness == InitHarness /\ [][NextHarness]_vars

\* The list calculate_path_times returns for pair p when nothing throws.
PairList(p) == [a \in Algorithms |-> measure_performance(p, a)]

\* C5: when paths_task returns a value for k pairs, the value has exactly k
\* lists, list p is the one of the p-th pair submitted, and each list has the
\* four results in the order localSearchOptimization, geneticAlgorithm,
\* dijkstra, geneticLocalSearchOptimization, whatever the order in which the
\* tasks completed.
C5_SubmissionOrder ==
    (op = "paths_task" /\ taskRet.kind = "value") =>
        /\ Len(taskRet.value) = args[1]
        /\ \A p \in 1..args[1] : taskRet.value[p] = PairList(p)

\* Two pairs were submitted and paths_task returned a value of two lists of
\* four results.
C5_Witness ==
    /\ op = "paths_task"
    /\ args = <<2>>
    /\ pc = "done"
    /\ taskRet = Value(<<PairList(1), PairList(2)>>)

\* C6 as stated: once paths_task has returned after the task of a pair
\* raised, the value it returned holds the results of every pair whose task
\* completed without raising.
C6_OthersReturned ==
    (op = "paths_task" /\ pc = "done"
        /\ \E p \in DOMAIN f_pt : f_pt[p] = "threw") =>
        \A p \in DOMAIN f_pt :
            f_pt[p] = "ready" =>
                /\ taskRet.kind = "value"
                /\ \E i \in DOMAIN taskRet.value : taskRet.value[i] = results[p]

\* C6 amended: once paths_task has returned and the task of a pair raised,
\* it reported one error, that of the first pair in submission order whose
\* task raised, and returned the empty optional: no pair's results are
\* returned.
C6_ErrorReturnsEmpty ==
    (op = "paths_task" /\ pc = "done"
        /\ \E p \in DOMAIN f_pt : f_pt[p] = "threw") =>
        /\ taskRet = Nullopt
        /\ Len(reported) = 1
        /\ f_pt[reported[1]] = "threw"
        /\ \A q \in 1..(reported[1] - 1) :
              f_pt[q] = "ready" /\ path_results[q] = results[q]

\* The first pair's task completed with its four results and was collected,
\* the second pair's task raised, and paths_task has returned.
C6_Witness ==
    /\ op = "paths_task"
    /\ pc = "done"
    /\ args = <<2>>
    /\ f_pt[1] = "ready"
    /\ f_pt[2] = "threw"
    /\ path_results = <<PairList(1)>>
    /\ reported = <<2>>

(***************************************************************************)
(* SpecTwoOpt: the 2-opt loop of geneticLocalSearchOptimization run on any *)
(* path over the vertices of a built graph.                                *)
(***************************************************************************)
TwoOptVertices == 3
TwoOptWeight == 1
TwoOptEdges == 2

\* The paths of 1 to n + 1 cities over the vertices 0..n-1: the sizes an
\* offspring can have.
OffspringPaths(n) == UNION {[1..k -> 0..(n - 1)] : k \in 1..(n + 1)}

\* The 2-opt loop is entered with newPopulation holding one offspring;
\* population keeps the offspring as the crossover left it.
EnterTwoOpt(n) ==
    /\ op = "none"
    /\ \E path \in OffspringPaths(n) :
          /\ op' = "hybrid"
          /\ args' = <<path[1], path[Len(path)]>>
          /\ pc' = "loop"
          /\ iter' = 0
          /\ matrixRead' = TRUE
          /\ population' = <<path>>
          /\ newPopulation' = <<path>>
    /\ UNCHANGED <<graphVars, ret, annealVars, geneticVars, harnessVars,
                   m_vertexList, poolVars>>

InitTwoOpt == InitGraph(TwoOptVertices)

NextTwoOpt ==
    \/ BuildSimpleGraph(TwoOptVertices, TwoOptWeight, TwoOptEdges)
    \/ EnterTwoOpt(TwoOptVertices)
    \/ HybridRefine(1, 1)

SpecTwoOpt == InitTwoOpt /\ [][NextTwoOpt]_vars

\* The sum of the raw length sums of the offspring.
RefineMeasure ==
    LET RECURSIVE Total(_)
        Total(c) == IF c > Len(newPopulation) THEN 0
                    ELSE PathWeight(newPopulation[c]) + Total(c + 1)
    IN Total(1)

\* C16: every pass of the 2-opt loop that accepts a reversal lowers the sum
\* of the length sums of the offspring, -1 entries included, and that sum is
\* never below minus the number of their hops: the loop accepts finitely
\* many reversals and then meets a pass that accepts none.
C16_TwoOptTerminates ==
    [][(/\ op = "hybrid"
        /\ newPopulation' # newPopulation
        /\ Len(newPopulation') = Len(newPopulation))
       => /\ RefineMeasure' < RefineMeasure
          /\ \A c \in 1..Len(newPopulation) :
                PathWeight(newPopulation'[c]) >= 1 - Len(newPopulation'[c])]_vars

\* A pass of the 2-opt loop has replaced the offspring by a path whose sum
\* holds a -1 entry, and the next pass accepts nothing.
C16_Witness ==
    /\ op = "hybrid" /\ pc = "loop"
    /\ Len(newPopulation) = 1
    /\ newPopulation # population
    /\ Unrefined = {}
    /\ ~ValidPath(newPopulation[1])

\* Whether no reversal of the positions i..j of path, both between the two
\* ends, gives a path of smaller length sum.
LocalOptimum(path) ==
    \A i \in 1..(Len(path) - 2), j \in 1..(Len(path) - 2) :
        i < j => PathWeight(ReverseSegment(path, i, j + 1)) >= PathWeight(path)

\* C26: an offspring whose 2-opt loop has ended is a local optimum, no
\* reversal of a segment of its interior positions has a smaller length sum,
\* and every pass that changed an offspring lowered its length sum.
C26_LocalOptimum ==
    /\ [](op = "hybrid" =>
             \A c \in 1..Len(newPopulation) :
                 c \notin Unrefined => LocalOptimum(newPopulation[c]))
    /\ [][(op = "hybrid" /\ Len(newPopulation') = Len(newPopulation)) =>
             \A c \in 1..Len(newPopulation) :
                 newPopulation'[c] # newPopulation[c] =>
                     PathWeight(newPopulation'[c]) < PathWeight(newPopulation[c])]_vars

\* The 2-opt loop of an offspring of four cities has ended after it reversed
\* the two interior positions, which lowered the length sum.
C26_Witness ==
    /\ op = "hybrid" /\ pc = "loop"
    /\ Len(newPopulation) = 1
    /\ Unrefined = {}
    /\ Len(population[1]) = 4
    /\ newPopulation[1] = ReverseSegment(population[1], 1, 3)
    /\ PathWeight(newPopulation[1]) < PathWeight(population[1])

(***************************************************************************)
(* SpecSearch: a graph without self-loops is built and one of the four     *)
(* searches is run on it, with arguments in range or not.                  *)
(***************************************************************************)
SearchVertices == 4
SearchWeight == 1
SearchEdges == 2
SearchObjects == 2

\* The objects with ids below k that a graph is given before its edges, in
\* the order of their ids.
RegisterVertices(k) ==
    /\ op = "none"
    /\ m_edges = 0
    /\ \E id \in 0..(k - 1) :
          /\ \A o \in m_vertexMap : o.m_id < id
          /\ AddVertex(<<[m_id |-> id, m_name |-> "place"]>>)

Searches == {"dijkstra", "genetic", "annealing", "hybrid"}

InitSearch == InitGraph(SearchVertices)

NextSearch ==
    \/ RegisterVertices(SearchObjects)
    \/ BuildSimpleGraph(SearchVertices, SearchWeight, SearchEdges)
    \/ CallDijkstra(SearchVertices)
    \/ CallAnneal(SearchVertices)
    \/ AnnealIter(AnnealIterations)
    \/ AnnealReturn(AnnealIterations)
    \/ CallHybrid(SearchVertices)
    \/ HybridCross(HybridPopulation, HybridGenerations)
    \/ HybridRefine(HybridPopulation, HybridGenerations)
    \/ HybridSelect(HybridPopulation, HybridGenerations)
    \/ HybridReturn(HybridGenerations)
    \/ CallGenetic(SearchVertices)
    \/ GeneticEvaluate
    \/ GeneticBreed
    \/ GeneticReturn

SpecSearch == InitSearch /\ [][NextSearch]_vars

\* C15: every step of dijkstra, geneticAlgorithm, localSearchOptimization
\* and geneticLocalSearchOptimization, from the call to the return, leaves
\* the weight matrix, the vertex registry, the vertex capacity and the edge
\* count as they were.
C15_GraphUnchanged ==
    [][op' \in Searches => graphVars' = graphVars]_vars

\* A search returned a path through every vertex of a graph with registered
\* objects and SearchEdges edges.
C15_Witness ==
    /\ op \in Searches
    /\ pc = "done"
    /\ m_vertexMap # {}
    /\ m_edges = SearchEdges
    /\ Len(ret.path) = m_vertices
    /\ m_adjMatrix # EmptyMatrix(m_vertices)

(***************************************************************************)
(* SpecRandom: one call of paths_task, with the random draws of the        *)
(* algorithm tasks.                                                        *)
(***************************************************************************)
\* The state behind std::rand(): one per process.
StdRand == <<0, 0>>

\* The generator the algorithm task a of pair p draws from: the
\* std::mt19937 rng that localSearchOptimization and geneticAlgorithm
\* construct in their own frame, std::rand() in
\* geneticLocalSearchOptimization.
Generator(p, a) ==
    IF algorithm_map[a] = "geneticLocalSearchOptimization" THEN StdRand ELSE <<p, a>>

\* The algorithms that draw random numbers: all but dijkstra.
Randomized == {a \in Algorithms : algorithm_map[a] # "dijkstra"}

\* The running algorithm task a of pair p draws a number.
AlgoDraw(p, a) ==
    /\ op = "paths_task"
    /\ p \in DOMAIN f_pt
    /\ a \in Randomized
    /\ futures[p][a] = "running"
    /\ rngDraws' = rngDraws \cup {<<Generator(p, a), <<p, a>>>>}
    /\ UNCHANGED <<graphVars, callVars, searchVars, annealVars, popVars,
                   geneticVars, f_pt, futures, results, path_results,
                   reported, taskRet, m_vertexList, poolVars>>

NextRandom ==
    \/ \E k \in 0..MaxPairs : PathsTask(k)
    \/ \E p \in 1..MaxPairs : CalcLaunch(p)
    \/ \E p \in 1..MaxPairs, a \in Algorithms : AlgoDraw(p, a)
    \/ \E p \in 1..MaxPairs, a \in Algorithms : AlgoFinish(p, a)
    \/ \E p \in 1..MaxPairs : CalcCollect(p)
    \/ TaskCollect
    \/ TaskReturn

SpecRandom == InitHarness /\ [][NextRandom]_vars

\* C14: no generator has been drawn from by two algorithm tasks that are
\* running at the same time.
C14_OwnGenerator ==
    \A x \in rngDraws, y \in rngDraws :
        (/\ x[1] = y[1]
         /\ futures[x[2][1]][x[2][2]] = "running"
         /\ futures[y[2][1]][y[2][2]] = "running") => x[2] = y[2]

(***************************************************************************)
(* SpecTour: a graph is built, self-loops included, and geneticAlgorithm   *)
(* is called with start = end on it.                                       *)
(***************************************************************************)
TourVertices == 2
TourWeight == 2
TourEdges == 2

\* The one call geneticAlgorithm(v, v) that ends the construction.
CallTour(n) ==
    /\ op = "none"
    /\ \E v \in 0..(n - 1) : GeneticStart(v, v)

InitTour == InitGraph(TourVertices)

NextTour ==
    \/ BuildGraph(TourVertices, TourWeight, TourEdges)
    \/ CallTour(TourVertices)
    \/ GeneticEvaluate
    \/ GeneticBreed
    \/ GeneticReturn

SpecTour == InitTour /\ [][NextTour]_vars

\* C11: geneticAlgorithm does not raise invalid_argument, and a non-empty
\* path it returned holds vertices only, has an edge between every two
\* consecutive vertices, starts at start, ends at end, and came back with the
\* sum of its consecutive weights.
C11_GeneticValid ==
    op = "genetic" =>
        /\ pc # "threw"
        /\ (pc = "done" /\ ret.path # <<>>) =>
              /\ Range(ret.path) \subseteq Vertices
              /\ ValidPath(ret.path)
              /\ ret.path[1] = args[1]
              /\ ret.path[Len(ret.path)] = args[2]
              /\ ret.dist = PathWeight(ret.path)

\* How often vertex v occurs in path.
Occurrences(path, v) == Cardinality({k \in 1..Len(path) : path[k] = v})

\* Whether path holds what the individuals of initialize_population hold:
\* start first, end last, and every vertex as often as they do (once, start
\* twice when start = end).
IsIndividual(path) ==
    /\ Len(path) = IF args[1] = args[2] THEN m_vertices + 1 ELSE m_vertices
    /\ path[1] = args[1]
    /\ path[Len(path)] = args[2]
    /\ \A v \in Vertices :
          Occurrences(path, v) = IF v = args[1] /\ v = args[2] THEN 2 ELSE 1

\* C23: in geneticAlgorithm every individual of every generation, and every
\* child pushed to the next one, has the length and the vertices of the
\* initial individuals, start first and end last, and a generation has
\* POPULATION_SIZE individuals; for every in-range start, end, start = end
\* included.
C23_Permutations ==
    (op = "genetic" /\ ArgsInRange) =>
        /\ Len(population) = POPULATION_SIZE
        /\ Len(newPopulation) < POPULATION_SIZE
        /\ \A path \in Range(population) \cup Range(newPopulation) :
              IsIndividual(path)

(***************************************************************************)
(* SpecCompletion: graphs of one to CompletionVertices vertices, and one   *)
(* search call on them with start and end in range, the hybrid search with *)
(* population_size = 1.  A call that has started takes its next step.      *)
(***************************************************************************)
CompletionVertices == 3
CompletionWeight == 1
CompletionEdges == 2
CompletionIterations == 1

CallInRange ==
    /\ op = "none"
    /\ \E start \in Vertices, end \in Vertices :
          \/ Dijkstra(start, end)
          \/ AnnealStart(start, end)
          \/ start # end /\ GeneticStart(start, end)
          \/ HybridStart(start, end, 1)

InitCompletion == \E n \in 1..CompletionVertices : InitGraph(n)

NextCompletion ==
    \/ BuildSimpleGraph(m_vertices, CompletionWeight, CompletionEdges)
    \/ CallInRange
    \/ AnnealIter(CompletionIterations)
    \/ AnnealRedraw(CompletionIterations)
    \/ AnnealReturn(CompletionIterations)
    \/ GeneticEvaluate
    \/ GeneticBreed
    \/ GeneticReturn
    \/ HybridRedraw(1, CompletionIterations)

SpecCompletion ==
    InitCompletion /\ [][NextCompletion]_vars /\ WF_vars(NextCompletion)

\* C27: a search call with start and end in range runs to completion: it
\* returns after its budget of generations or iterations, and the loops that
\* redraw a second position or a second parent end.
C27_RunsToCompletion ==
    (op \in Searches /\ ArgsInRange) ~> (pc = "done")

(***************************************************************************)
(* SpecPool: a ThreadPool of PoolThreads workers and PoolCallers threads   *)
(* that call submit, shutdown, pause and resume on it.  A thread is named  *)
(* <<"caller", k>> or <<"worker", k>>; queueMutex is <<>> when free and    *)
(* the name of its owner otherwise.  The critical sections of workerLoop   *)
(* are single steps.                                                       *)
(***************************************************************************)
PoolThreads == 2
PoolCallers == 2
PoolTasks == 2

\* size_t minThreads{ 1 }
minThreads == 1

Caller(k) == <<"caller", k>>

\* The state after ThreadPool(PoolThreads): startThreads has started the
\* workers, each at the top of workerLoop.
InitPool ==
    /\ InitMembers(0)
    /\ threads = [k \in 1..PoolThreads |-> k]
    /\ workers = [k \in 1..PoolThreads |-> [pc |-> "loop", task |-> -1]]
    /\ tasks = <<>>
    /\ queueMutex = <<>>
    /\ shutdownFlag = FALSE
    /\ pausedFlag = FALSE
    /\ canAddThreads = TRUE
    /\ nextTaskId = 0
    /\ client = [k \in 1..PoolCallers |-> [pc |-> "idle", task |-> -1, last |-> "none"]]
    /\ executed = <<>>
    /\ taskFutures = <<>>

\* What the pool actions leave alone.
NoSearch ==
    UNCHANGED <<graphVars, callVars, searchVars, annealVars, popVars, geneticVars,
                harnessVars, m_vertexList>>

\* condition.notify_all(): every worker blocked in condition.wait goes back
\* to the test of its predicate.
NotifyAll ==
    [k \in DOMAIN workers |->
        IF workers[k].pc = "waiting" THEN [workers[k] EXCEPT !.pc = "loop"]
        ELSE workers[k]]

\* A thread enters submit or shutdown: its next step is to lock queueMutex.
Enter(k) ==
    /\ client[k].pc = "idle"
    /\ \E call \in {"submit", "shutdown"} :
          /\ call = "submit" => nextTaskId < PoolTasks
          /\ client' = [client EXCEPT ![k].pc = call]
    /\ UNCHANGED <<threads, workers, tasks, queueMutex, shutdownFlag, pausedFlag,
                   canAddThreads, nextTaskId, executed, taskFutures>>
    /\ NoSearch

\* submit up to checkAndAddThreads: lock queueMutex, throw when shutdownFlag
\* is set, otherwise take the next task id and push the task.
SubmitEnqueue(k) ==
    /\ client[k].pc = "submit"
    /\ queueMutex = <<>>
    /\ IF shutdownFlag
       THEN /\ client' = [client EXCEPT ![k] = [pc |-> "idle", task |-> -1,
                                                last |-> "rejected"]]
            /\ UNCHANGED <<tasks, queueMutex, nextTaskId, taskFutures>>
       ELSE /\ tasks' = Append(tasks, nextTaskId)
            /\ taskFutures' = Append(taskFutures, "pending")
            /\ nextTaskId' = nextTaskId + 1
            /\ queueMutex' = Caller(k)
            /\ client' = [client EXCEPT ![k] = [pc |-> "relock", task |-> nextTaskId,
                                                last |-> @.last]]
    /\ UNCHANGED <<threads, workers, shutdownFlag, pausedFlag, canAddThreads, executed>>
    /\ NoSearch

\* checkAndAddThreads called from submit: it locks queueMutex, which the
\* calling thread holds.  std::mutex is not recursive: the thread blocks on
\* itself for ever, or lock throws std::system_error, which leaves submit
\* through the unique_lock destructor with the task queued and no worker
\* notified.
SubmitRelock(k) ==
    /\ client[k].pc = "relock"
    /\ queueMutex = Caller(k)
    /\ \E deadlocks \in BOOLEAN :
          IF deadlocks
          THEN /\ client' = [client EXCEPT ![k].pc = "blocked"]
               /\ UNCHANGED queueMutex
          ELSE /\ client' = [client EXCEPT ![k] = [pc |-> "idle", task |-> -1,
                                                   last |-> "threw"]]
               /\ queueMutex' = <<>>
    /\ UNCHANGED <<threads, workers, tasks, shutdownFlag, pausedFlag, canAddThreads,
                   nextTaskId, executed, taskFutures>>
    /\ NoSearch

\* shutdown up to the joins: shutdownFlag.exchange(true) under the lock, an
\* immediate return when it was set, condition.notify_all() otherwise.
ShutdownFlag(k) ==
    /\ client[k].pc = "shutdown"
    /\ queueMutex = <<>>
    /\ IF shutdownFlag
       THEN /\ client' = [client EXCEPT ![k] = [pc |-> "idle", task |-> -1,
                                                last |-> "returned at once"]]
            /\ UNCHANGED <<shutdownFlag, workers>>
       ELSE /\ shutdownFlag' = TRUE
            /\ workers' = NotifyAll
            /\ client' = [client EXCEPT ![k].pc = "join"]
    /\ UNCHANGED <<threads, tasks, queueMutex, pausedFlag, canAddThreads, nextTaskId,
                   executed, taskFutures>>
    /\ NoSearch

\* The joins of shutdown: they end when every thread of the vector has left
\* workerLoop.
ShutdownJoin(k) ==
    /\ client[k].pc = "join"
    /\ \A i \in 1..Len(threads) : workers[threads[i]].pc = "exited"
    /\ client' = [client EXCEPT ![k] = [pc |-> "idle", task |-> -1, last |-> "joined"]]
    /\ UNCHANGED <<threads, workers, tasks, queueMutex, shutdownFlag, pausedFlag,
                   canAddThreads, nextTaskId, executed, taskFutures>>
    /\ NoSearch

\* pause: pausedFlag.store(true) under the lock.
Pause(k) ==
    /\ client[k].pc = "idle"
    /\ queueMutex = <<>>
    /\ pausedFlag' = TRUE
    /\ client' = [client EXCEPT ![k].last = "paused"]
    /\ UNCHANGED <<threads, workers, tasks, queueMutex, shutdownFlag, canAddThreads,
                   nextTaskId, executed, taskFutures>>
    /\ NoSearch

\* resume: pausedFlag.store(false) and condition.notify_all() under the lock.
Resume(k) ==
    /\ client[k].pc = "idle"
    /\ queueMutex = <<>>
    /\ pausedFlag' = FALSE
    /\ workers' = NotifyAll
    /\ client' = [client EXCEPT ![k].last = "resumed"]
    /\ UNCHANGED <<threads, tasks, queueMutex, shutdownFlag, canAddThreads,
                   nextTaskId, executed, taskFutures>>
    /\ NoSearch

\* The predicate of condition.wait in workerLoop.
WaitPredicate == shutdownFlag \/ tasks # <<>> \/ ~pausedFlag

\* The locked block of workerLoop: wait for the predicate, return when the
\* pool is shut down and the queue is empty, take the front task unless the
\* pool is paused.
WorkerDequeue(w) ==
    /\ workers[w].pc = "loop"
    /\ queueMutex = <<>>
    /\ IF ~WaitPredicate
       THEN /\ workers' = [workers EXCEPT ![w].pc = "waiting"]
            /\ UNCHANGED tasks
       ELSE IF shutdownFlag /\ tasks = <<>>
       THEN /\ workers' = [workers EXCEPT ![w].pc = "exited"]
            /\ UNCHANGED tasks
       ELSE IF ~pausedFlag /\ tasks # <<>>
       THEN /\ workers' = [workers EXCEPT ![w] = [pc |-> "run", task |-> Head(tasks)]]
            /\ tasks' = Tail(tasks)
       ELSE /\ workers' = [workers EXCEPT ![w].pc = "check"]
            /\ UNCHANGED tasks
    /\ UNCHANGED <<threads, queueMutex, shutdownFlag, pausedFlag, canAddThreads,
                   nextTaskId, client, executed, taskFutures>>
    /\ NoSearch

\* if (task) task(): the packaged task runs and makes its future ready.
WorkerRun(w) ==
    /\ workers[w].pc = "run"
    /\ executed' = Append(executed, workers[w].task)
    /\ taskFutures' = [taskFutures EXCEPT ![workers[w].task + 1] = "ready"]
    /\ workers' = [workers EXCEPT ![w] = [pc |-> "check", task |-> -1]]
    /\ UNCHANGED <<threads, tasks, queueMutex, shutdownFlag, pausedFlag, canAddThreads,
                   nextTaskId, client>>
    /\ NoSearch

\* lastActivityTime = now; checkAndRemoveThreads(): under the lock, when more
\* than 60 seconds went by since lastActivityTime was written and the vector
\* holds more than minThreads threads, the last thread of the vector is
\* detached and popped; the worker then goes round its loop.
WorkerCheck(w) ==
    /\ workers[w].pc = "check"
    /\ queueMutex = <<>>
    /\ \E idle \in BOOLEAN :
          IF idle /\ Len(threads) > minThreads
          THEN /\ canAddThreads' = FALSE
               /\ threads' = SubSeq(threads, 1, Len(threads) - 1)
          ELSE /\ ~idle
               /\ canAddThreads' = TRUE
               /\ UNCHANGED threads
    /\ workers' = [workers EXCEPT ![w].pc = "loop"]
    /\ UNCHANGED <<tasks, queueMutex, shutdownFlag, pausedFlag, nextTaskId, client,
                   executed, taskFutures>>
    /\ NoSearch

CallerStep(k) ==
    \/ SubmitEnqueue(k)
    \/ SubmitRelock(k)
    \/ ShutdownFlag(k)
    \/ ShutdownJoin(k)

WorkerStep(w) ==
    \/ WorkerDequeue(w)
    \/ WorkerRun(w)
    \/ WorkerCheck(w)

NextPool ==
    \/ \E k \in 1..PoolCallers : Enter(k) \/ Pause(k) \/ Resume(k) \/ CallerStep(k)
    \/ \E w \in 1..PoolThreads : WorkerStep(w)

\* Every thread that can take a step of a call or of workerLoop takes it.
SpecPool ==
    /\ InitPool /\ [][NextPool]_vars
    /\ \A k \in 1..PoolCallers : WF_vars(CallerStep(k))
    /\ \A w \in 1..PoolThreads : WF_vars(WorkerStep(w))

\* C29: while the pool is not shut down, a call of submit returns a future,
\* without blocking on queueMutex; tasks leave the queue from the front; a
\* task is run once, and once submitted it is run in the end, which makes its
\* future ready.
C29_SubmitRuns ==
    /\ [](\A k \in 1..PoolCallers :
             /\ client[k].pc # "blocked"
             /\ client[k].last # "threw")
    /\ [][tasks' = tasks \/ (tasks # <<>> /\ tasks' = Tail(tasks))
             \/ (Len(tasks') = Len(tasks) + 1
                   /\ SubSeq(tasks', 1, Len(tasks)) = tasks)]_vars
    /\ [](\A a, b \in 1..Len(executed) : a # b => executed[a] # executed[b])
    /\ \A id \in 0..(PoolTasks - 1) :
          (nextTaskId > id /\ ~shutdownFlag /\ ~pausedFlag)
              ~> (Len(taskFutures) > id /\ taskFutures[id + 1] = "ready")

\* C30: a call of shutdown returns in the end, with every worker out of
\* workerLoop and every task that was queued run; submit after shutdown is
\* rejected and queues nothing; a second shutdown returns at once.
C30_Shutdown ==
    /\ \A k \in 1..PoolCallers :
          (client[k].pc = "shutdown") ~> (client[k].pc = "idle")
    /\ [](\A k \in 1..PoolCallers :
             client[k].last = "joined" =>
                 /\ \A w \in 1..PoolThreads : workers[w].pc = "exited"
                 /\ tasks = <<>>
                 /\ Len(executed) = nextTaskId)
    /\ [][shutdownFlag => tasks' = tasks \/ (tasks # <<>> /\ tasks' = Tail(tasks))]_vars

====
